---- MODULE Spec2Model ----
(***************************************************************************)
(* A model of the workflow execution core: WorkflowEngine.execute, its     *)
(* step runner executeStep (validation, retry, exponential backoff), the   *)
(* condition evaluator and the run ledger (storage) it checkpoints to.     *)
(*                                                                         *)
(* One run of execute() is a state machine whose control points are the    *)
(* awaits of the code (ledger calls, hook calls, executor attempts).       *)
(* Executors, hooks and the ledger are the environment: every call to one  *)
(* of them may succeed or fail, chosen nondeterministically.               *)
(***************************************************************************)
EXTENDS Integers, Sequences, FiniteSets, TLC

----------------------------------------------------------------------------
(* Bounds of the model *)

\* steps per workflow (engine-level specification)
MaxSteps == 2
\* plugins registered on the engine
MaxPlugins == 1
\* retries of a step (engine-level specification)
MaxRetries == 1
\* retries of the single step of the step-runner specification; 6 makes the
\* backoff reach its cap (1000 * 2^5 > 30000)
MaxRunnerRetries == 6
\* plugins registered on the engine of the hook-order specification
MaxHookPlugins == 2
\* items of a fan-out; 6 gives the default concurrency of 5 a second batch
MaxItems == 6
\* the maxConcurrency a fan-out is given (0: none)
MaxConcurrency == 2
\* items of a fan-out whose nested sequence has three sub-steps
MaxNestedItems == 3
\* updateRun calls on the storage
MaxUpdates == 2
\* pieces (literal text, ${...} references) of a text to interpolate
MaxPieces == 2

----------------------------------------------------------------------------
(* Values *)

\* JavaScript's undefined (an absent optional field)
Undefined == "undefined"

\* JavaScript values a path can resolve to, tagged with their type
JsUndefined == [type |-> "undefined", bool |-> FALSE, num |-> 0, str |-> ""]
JsBool(b) == [type |-> "boolean", bool |-> b, num |-> 0, str |-> ""]
JsNum(n) == [type |-> "number", bool |-> FALSE, num |-> n, str |-> ""]
JsStr(s) == [type |-> "string", bool |-> FALSE, num |-> 0, str |-> s]

\* StepResult.data, as far as expressions of the model reach into it: the
\* status of an http response and the message of a log step
StepData(status, message) == [status |-> status, message |-> message]
NoData == StepData(JsUndefined, JsUndefined)

\* Record<string, StepResult> with no entries
EmptySteps == [n \in {} |-> Undefined]

\* run.steps[name] = result
PutStep(steps, name, result) ==
    [n \in (DOMAIN steps) \cup {name} |-> IF n = name THEN result ELSE steps[n]]

\* the name of the i-th distinct step name
StepName(i) == "s" \o ToString(i)

OnErrorValues == {"stop", "continue", "retry"}

\* Executors. "http" is a built-in with a validate function; "custom" is an
\* executor without one, known to the engine only when a plugin brings it.
HttpExecutor == [type |-> "http", hasValidate |-> TRUE]
CustomExecutor == [type |-> "custom", hasValidate |-> FALSE]
LogExecutor == [type |-> "log", hasValidate |-> TRUE]
WaitExecutor == [type |-> "wait", hasValidate |-> TRUE]
ForEachExecutor == [type |-> "foreach", hasValidate |-> TRUE]

\* params of a step: valid and invalid for the http executor
ValidParams == [url |-> "https://example.test/", method |-> "GET"]
InvalidParams == [url |-> "", method |-> "GET"]

\* the validate function of the built-in executors:
\*   log:  !!params.message
\*   wait: typeof params.duration === "number" && params.duration > 0
\*   http: !!(params.url && params.method)
\*   foreach: items is an array and steps is an array that is not empty
validate(type, params) ==
    IF type = "log" THEN params.message # <<>>
    ELSE IF type = "foreach" THEN Len(params.steps) > 0
    ELSE IF type = "wait" THEN params.duration > 0
    ELSE params.url # "" /\ params.method # ""

HookError == "hook failed"

\* Plugins: one that only carries hooks, one that only carries an executor;
\* message is the message of the Error a hook of the plugin throws when it
\* throws
HookPlugin == [name |-> "audit", hooks |-> TRUE, stepExecutors |-> {},
               message |-> HookError]
StepPlugin == [name |-> "ext", hooks |-> FALSE, stepExecutors |-> {CustomExecutor},
               message |-> HookError]
PluginKinds == {HookPlugin, StepPlugin}

\* an executor whose execute() returns a promise that never settles, and the
\* plugin that brings it
HangExecutor == [type |-> "hang", hasValidate |-> FALSE]
HangPlugin == [name |-> "hang", hooks |-> FALSE, stepExecutors |-> {HangExecutor},
               message |-> HookError]

\* a plugin whose hooks throw new Error(), an exception without a message
MuteHookPlugin == [name |-> "mute", hooks |-> TRUE, stepExecutors |-> {},
                   message |-> ""]

\* What one call of executor.execute can do: resolve with success=true,
\* resolve with success=false and an error string, or reject.
ExecErrorReturned == "HTTP 500: Internal Server Error"
ExecErrorThrown == "socket hang up"
ExecOutcomes ==
    { [kind |-> "ok", error |-> Undefined, data |-> NoData],
      [kind |-> "fail", error |-> ExecErrorReturned, data |-> NoData],
      [kind |-> "throw", error |-> ExecErrorThrown, data |-> NoData] }

LedgerError == "SQLITE_BUSY: database is locked"

----------------------------------------------------------------------------
(* Condition evaluation (utils/conditions.ts) *)

\* A condition string is a sequence of pieces: literal text, or a ${path}
\* reference. The empty sequence is the absent (or empty) condition.
Lit(text) == [kind |-> "lit", text |-> text, path |-> <<>>]
Ref(path) == [kind |-> "ref", text |-> "", path |-> path]

NoCondition == <<>>
CondS1Succeeded == <<Ref(<<"steps", "s1", "success">>)>>

\* more condition strings: a comparison, two that throw when they are
\* evaluated ("true ==" is no expression, nothing defines "attempts"), a
\* function call and an assignment
CondS1Status200 == <<Ref(<<"steps", "s1", "data", "status">>), Lit(" == 200")>>
CondSyntaxError == <<Ref(<<"steps", "s1", "success">>), Lit(" ==")>>
CondReferenceError == <<Lit("attempts > 1")>>
CondFunctionCall == <<Lit("Date.now() > 0")>>
CondAssignment == <<Lit("globalThis.evaluated = true")>>

\* the value of one field of a StepResult
ResultField(res, field) ==
    IF field = "success" THEN JsBool(res.success)
    ELSE IF field = "retries" THEN JsNum(res.retries)
    ELSE IF field = "error" /\ res.error # Undefined THEN JsStr(res.error)
    ELSE JsUndefined

\* the value of one field of a StepResult's data
DataField(data, field) ==
    IF field \in DOMAIN data THEN data[field] ELSE JsUndefined

\* the fields of a StepContext that hold a string
ContextStrings == {"currentStep", "runId"}

\* getNestedValue(context, path): key by key from the context object
\* itself; a missing key at any level gives undefined. The model's
\* expressions reach into the context's steps, into its variables, and to
\* its fields that hold a string, as far as the context has them.
getNestedValue(context, path) ==
    IF Len(path) >= 3 /\ path[1] = "steps" /\ path[2] \in DOMAIN context.steps
    THEN IF Len(path) = 3
         THEN ResultField(context.steps[path[2]], path[3])
         ELSE IF Len(path) = 4 /\ path[3] = "data"
         THEN DataField(context.steps[path[2]].data, path[4])
         ELSE JsUndefined
    ELSE IF Len(path) = 2 /\ path[1] = "variables" /\ "variables" \in DOMAIN context
    THEN IF path[2] \in DOMAIN context.variables
         THEN context.variables[path[2]] ELSE JsUndefined
    ELSE IF Len(path) = 1 /\ path[1] \in ContextStrings /\ path[1] \in DOMAIN context
    THEN JsStr(context[path[1]])
    ELSE JsUndefined

\* JSON.stringify(value), as String.replace inserts it into the text
JsonStringify(value) ==
    IF value.type = "boolean" THEN (IF value.bool THEN "true" ELSE "false")
    ELSE IF value.type = "number" THEN ToString(value.num)
    ELSE IF value.type = "string" THEN "\"" \o value.str \o "\""
    ELSE "undefined"

\* condition.replace(/\${([^}]+)}/g, ...)
RECURSIVE processCondition(_, _)
processCondition(condition, context) ==
    IF condition = <<>> THEN ""
    ELSE LET piece == Head(condition)
             text == IF piece.kind = "ref"
                     THEN JsonStringify(getNestedValue(context, piece.path))
                     ELSE piece.text
         IN text \o processCondition(Tail(condition), context)

\* Boolean(new Function("return " + text)()): the text is compiled and run
\* as JavaScript. It gives a value, after defining the names it assigns on
\* the global object, or it throws: a SyntaxError when the text is no
\* expression, a ReferenceError when it reads a name nothing defines.
EvalJs(text) ==
    IF text \in {"true", "200 == 200", "Date.now() > 0"}
    THEN [threw |-> FALSE, truthy |-> TRUE, assigns |-> {}]
    ELSE IF text \in {"false", "undefined", "500 == 200", "undefined == 200"}
    THEN [threw |-> FALSE, truthy |-> FALSE, assigns |-> {}]
    ELSE IF text = "globalThis.evaluated = true"
    THEN [threw |-> FALSE, truthy |-> TRUE, assigns |-> {"evaluated"}]
    ELSE [threw |-> TRUE, truthy |-> FALSE, assigns |-> {}]

\* an evaluateCondition whose catch block lets the step run
evaluateConditionFailOpen(condition, context) ==
    LET value == EvalJs(processCondition(condition, context))
    IN IF value.threw THEN TRUE ELSE value.truthy

\* evaluateCondition: the catch block turns a throw into false
evaluateCondition(condition, context) ==
    LET value == EvalJs(processCondition(condition, context))
    IN IF value.threw THEN FALSE ELSE value.truthy

\* the global object once evaluateCondition has run the text
AfterEvaluation(condition, context, defined) ==
    defined \cup EvalJs(processCondition(condition, context)).assigns

\* String(value) of a value that is not undefined
JsString(value) ==
    IF value.type = "boolean" THEN (IF value.bool THEN "true" ELSE "false")
    ELSE IF value.type = "number" THEN ToString(value.num)
    ELSE value.str

\* the text of a path: its keys joined by dots
RECURSIVE PathText(_)
PathText(path) ==
    IF Len(path) = 0 THEN ""
    ELSE IF Len(path) = 1 THEN path[1]
    ELSE path[1] \o "." \o PathText(Tail(path))

\* replaceVariables: a ${path} that resolves is replaced by String(value),
\* one that does not is left as it is
RECURSIVE replaceVariables(_, _)
replaceVariables(text, context) ==
    IF text = <<>> THEN ""
    ELSE LET piece == Head(text)
             value == getNestedValue(context, piece.path)
             out == IF piece.kind = "lit" THEN piece.text
                    ELSE IF value.type # "undefined" THEN JsString(value)
                    ELSE "${" \o PathText(piece.path) \o "}"
         IN out \o replaceVariables(Tail(text), context)

----------------------------------------------------------------------------
(* Workflows *)

StepSpec(name, type, params, condition, retries, onError) ==
    [name |-> name, type |-> type, params |-> params, condition |-> condition,
     retries |-> retries, onError |-> onError]

\* A step of type "custom" has no validate: its params do not matter.
ValidKinds == { <<"http", ValidParams>>, <<"custom", ValidParams>> }
AllKinds == ValidKinds \cup { <<"http", InvalidParams>> }

\* The i-th step may reuse the name of an earlier step: the loader accepts
\* duplicate names whenever the schema parses.
StepSpecsAt(i, kinds, conditions, retries) ==
    { StepSpec(StepName(n), k[1], k[2], c, r, e) :
        n \in 1..i, k \in kinds, c \in conditions, r \in retries,
        e \in OnErrorValues }

RECURSIVE WorkflowsOfLen(_, _, _, _)
WorkflowsOfLen(len, kinds, conditions, retries) ==
    IF len = 0 THEN { <<>> }
    ELSE { Append(w, s) : w \in WorkflowsOfLen(len - 1, kinds, conditions, retries),
                          s \in StepSpecsAt(len, kinds, conditions, retries) }

RECURSIVE PluginListsOfLen(_)
PluginListsOfLen(len) ==
    IF len = 0 THEN { <<>> }
    ELSE { Append(ps, p) : ps \in PluginListsOfLen(len - 1), p \in PluginKinds }

----------------------------------------------------------------------------
(* State *)

VARIABLES
    stepExecutors,  \* WorkflowEngine.stepExecutors: type -> executor
    plugins,        \* WorkflowEngine.plugins, in registration order
    workflow,       \* the steps of the workflow given to execute()
    pc,             \* where execute() stands
    stepIdx,        \* the index of the step the loop is at
    hookIdx,        \* the index of the plugin a hook loop is at
    run,            \* the WorkflowRun object execute() builds and returns
    result,         \* the StepResult of the step being handled
    retryCount,     \* executeStep's retryCount
    lastError,      \* executeStep's lastError
    ledger,         \* the row of this run in the storage
    trace,          \* history: the calls execute() made to the ledger, hooks,
                    \* executors and timer, and the loop's skip/enter
                    \* decisions, in order
    results,        \* history: the StepResult executeStep returned for each
                    \* step that ran, in order
    clock,          \* environment: the time, in ms, since execute() was called
    inFlight,       \* the calls of executor.execute whose promises have not
                    \* settled
    args,           \* the objects the caller hands to execute():
                    \* workflow.variables and the variables argument
    endpoint,       \* environment: the responses the http endpoint gives to
                    \* its first requests (script) and the number of requests
                    \* it has served; past the script, a call of an executor
                    \* may end in any way
    feParams,       \* ForEachStepExecutor.execute: its params
    fePc,           \* where ForEachStepExecutor.execute stands
    feI,            \* the loop index: item (sequential) or batch (parallel)
    feBatches,      \* const batches = this.createBatches(...)
    feInFlight,     \* the indices of the iterations that are running
    feBatchResults, \* the iterations of the batch that have settled
    feSettled,      \* history: how each iteration settled
    feResults,      \* const results: any[]
    feErrors,       \* const errors: any[]
    feReturn,       \* the StepResult ForEachStepExecutor.execute returns
    feHeap,         \* the entries of the objects the contexts of the fan-out
                    \* refer to: the variables and steps of its parent
                    \* context and of the context of each iteration
    dbRow,          \* SqliteStorage: the row of the run in workflow_runs
    dbCalls,        \* the number of updateRun calls made on the storage
    dbSupplied,     \* history: for each field of the run, the value the
                    \* last call that supplied it gave
    dbFetched,      \* what getRun returned, when it was the last call
    globals,        \* the names that code run by the process has defined on
                    \* its global object
    rvInput,        \* replaceVariables: the text and the context it is given
    rvOutput,       \* what replaceVariables returned
    executeCalls,   \* two calls of execute() on one engine: for each its
                    \* workflow, where it stands, its loop index and its
                    \* run object
    rows,           \* the rows of the storage, by run id
    shared          \* the names defined on the global object both calls
                    \* evaluate their conditions on

forEachVars == <<feParams, fePc, feI, feBatches, feInFlight, feBatchResults,
                 feSettled, feResults, feErrors, feReturn, feHeap>>

storageVars == <<dbRow, dbCalls, dbSupplied, dbFetched>>

replaceVars == <<rvInput, rvOutput>>

concurrentVars == <<executeCalls, rows, shared>>

\* the state outside the engine
outsideEngine == <<forEachVars, storageVars, replaceVars, concurrentVars>>

engineVars == <<stepExecutors, plugins, workflow, pc, stepIdx, hookIdx, run,
                result, retryCount, lastError, ledger, trace, results, endpoint,
                globals, clock, inFlight, args>>

vars == <<engineVars, outsideEngine>>

Event(op, step, arg) == [op |-> op, step |-> step, arg |-> arg]

NoResult == [success |-> FALSE, error |-> Undefined, data |-> NoData, retries |-> 0]

----------------------------------------------------------------------------
(* Engine set-up *)

\* registerStepExecutor: stepExecutors.set(executor.type, executor)
registerStepExecutor(executors, executor) ==
    [t \in (DOMAIN executors) \cup {executor.type} |->
        IF t = executor.type THEN executor ELSE executors[t]]

RECURSIVE registerAll(_, _)
registerAll(executors, toAdd) ==
    IF toAdd = {} THEN executors
    ELSE LET e == CHOOSE x \in toAdd : TRUE
         IN registerAll(registerStepExecutor(executors, e), toAdd \ {e})

\* registerPlugin: the plugin is appended, its executors are registered
registerPlugin(engine, plugin) ==
    [plugins |-> Append(engine.plugins, plugin),
     stepExecutors |-> registerAll(engine.stepExecutors, plugin.stepExecutors)]

\* new WorkflowEngine(...) followed by the registration of the built-in
\* executors, as every entry point of the program does
NewEngine ==
    [plugins |-> <<>>,
     stepExecutors |->
        registerStepExecutor(
            registerStepExecutor(
                registerStepExecutor(
                    registerStepExecutor([t \in {} |-> Undefined], HttpExecutor),
                    WaitExecutor),
                LogExecutor),
            ForEachExecutor)]

RECURSIVE EngineWith(_)
EngineWith(pluginList) ==
    IF pluginList = <<>> THEN NewEngine
    ELSE registerPlugin(EngineWith(SubSeq(pluginList, 1, Len(pluginList) - 1)),
                        pluginList[Len(pluginList)])

----------------------------------------------------------------------------
(* The ledger (storage) *)

\* endTime?: Date of a run that has not ended
NotEnded == 0

NoRow == [saved |-> FALSE, status |-> Undefined, error |-> Undefined,
          endTime |-> NotEnded, steps |-> EmptySteps]

\* a saveRun that inserts nothing
saveRunNothing(r) == NoRow

\* saveRun: INSERT of the run's columns
saveRun(r) ==
    [saved |-> TRUE, status |-> r.status, error |-> r.error,
     endTime |-> r.endTime, steps |-> r.steps]

\* an update that never writes the steps column
updateRunWithoutSteps(row, updates) ==
    IF ~row.saved THEN row
    ELSE [row EXCEPT
            !.status = IF "status" \in DOMAIN updates /\ updates.status # Undefined
                       THEN updates.status ELSE @,
            !.endTime = IF "endTime" \in DOMAIN updates /\ updates.endTime # NotEnded
                        THEN updates.endTime ELSE @,
            !.error = IF "error" \in DOMAIN updates /\ updates.error # Undefined
                      THEN updates.error ELSE @]

\* updateRun: UPDATE ... WHERE id = ?, setting the columns the update
\* supplies; a run that was never inserted has no row to update
updateRun(row, updates) ==
    IF ~row.saved THEN row
    ELSE [row EXCEPT
            !.status = IF "status" \in DOMAIN updates /\ updates.status # Undefined
                       THEN updates.status ELSE @,
            !.endTime = IF "endTime" \in DOMAIN updates /\ updates.endTime # NotEnded
                        THEN updates.endTime ELSE @,
            !.steps = IF "steps" \in DOMAIN updates THEN updates.steps ELSE @,
            !.error = IF "error" \in DOMAIN updates /\ updates.error # Undefined
                      THEN updates.error ELSE @]

----------------------------------------------------------------------------
(* SqliteStorage: the columns of a row and their encoding *)

\* more JavaScript values: null and a Date (num: its time value)
JsNull == [type |-> "null", bool |-> FALSE, num |-> 0, str |-> ""]
JsDate(t) == [type |-> "date", bool |-> FALSE, num |-> t, str |-> ""]

\* Date.prototype.toISOString, for the first seconds of a day
toISOString(t) == "2026-01-01T00:00:0" \o ToString(t) \o ".000Z"

\* new Date(text) of a text toISOString gave
RECURSIVE TimeOfFrom(_, _)
TimeOfFrom(text, t) == IF toISOString(t) = text THEN t ELSE TimeOfFrom(text, t + 1)
NewDate(text) == JsDate(TimeOfFrom(text, 0))

\* what JSON.stringify writes for a property value: a Date is written as
\* the string its toJSON gives, the other values as they are
toJSON(value) == IF value.type = "date" THEN JsStr(toISOString(value.num)) ELSE value

\* JSON.stringify(object) of an object with plain values: a property whose
\* value is undefined is left out. The text is represented by the document
\* it spells: the properties written and the JSON value of each.
stringifyObject(object) ==
    [k \in { j \in DOMAIN object : object[j].type # "undefined" } |->
        toJSON(object[k])]

\* JSON.stringify(steps) of a Record<string, StepResult>
stringifySteps(steps) == [n \in DOMAIN steps |-> stringifyObject(steps[n])]

\* JSON.parse(text): every JSON string, number, boolean or null of the
\* document becomes the JavaScript value of that type, every JSON object an
\* object with the properties written
parseObject(document) == [k \in DOMAIN document |-> document[k]]
parseSteps(document) == [n \in DOMAIN document |-> parseObject(document[n])]

\* value || null, of a value that is a string or undefined
OrNull(value) == IF value.type = "string" /\ value.str # "" THEN value ELSE JsNull

\* no row with the id
NoDbRow == [exists |-> FALSE]

\* SqliteStorage.saveRun: the INSERT
SqliteSaveRun(r) ==
    [exists |-> TRUE,
     status |-> r.status,
     end_time |-> IF r.endTime.type = "date"
                  THEN JsStr(toISOString(r.endTime.num)) ELSE JsNull,
     steps |-> stringifySteps(r.steps),
     variables |-> stringifyObject(r.variables),
     error |-> OrNull(r.error)]

\* an update supplies the field (its key is present)
Has(updates, field) == field \in DOMAIN updates

\* SqliteStorage.updateRun: the UPDATE sets the columns of the fields the
\* update supplies: status, endTime, steps and variables when they are
\* truthy (every object is), error when it is not undefined
SqliteUpdateRun(row, updates) ==
    IF ~row.exists THEN row
    ELSE [row EXCEPT
            !.status = IF Has(updates, "status") THEN updates.status ELSE @,
            !.end_time = IF Has(updates, "endTime") /\ updates.endTime.type = "date"
                         THEN JsStr(toISOString(updates.endTime.num)) ELSE @,
            !.steps = IF Has(updates, "steps") THEN stringifySteps(updates.steps) ELSE @,
            !.variables = IF Has(updates, "variables")
                          THEN stringifyObject(updates.variables) ELSE @,
            !.error = IF Has(updates, "error") /\ updates.error.type # "undefined"
                      THEN updates.error ELSE @]

\* SqliteStorage.mapRowToRun
mapRowToRun(row) ==
    [status |-> row.status,
     endTime |-> IF row.end_time.type = "string"
                 THEN NewDate(row.end_time.str) ELSE JsUndefined,
     steps |-> parseSteps(row.steps),
     variables |-> parseObject(row.variables),
     error |-> IF row.error.type = "string" /\ row.error.str # ""
               THEN row.error ELSE JsUndefined]

\* what getRun resolves with when there is no row
Null == [found |-> FALSE]

\* SqliteStorage.getRun
getRun(row) == IF ~row.exists THEN Null ELSE [found |-> TRUE, run |-> mapRowToRun(row)]

----------------------------------------------------------------------------
(* Step runner arithmetic *)

BackoffBase == 1000
BackoffCap == 30000

Min(a, b) == IF a <= b THEN a ELSE b

\* a backoff whose exponent is the retry count itself
BackoffDelayOffByOne(count) == Min(BackoffBase * 2 ^ count, BackoffCap)

\* Math.min(1000 * Math.pow(2, retryCount - 1), 30000)
BackoffDelay(count) == Min(BackoffBase * 2 ^ (count - 1), BackoffCap)

\* the loop condition of executeStep's catch block: another attempt follows
AttemptsRemain(count, step) == count <= step.retries

\* the StepResult executeStep returns for an attempt that resolved
ResolvedResult(outcome, count) ==
    [success |-> outcome.kind = "ok", error |-> outcome.error,
     data |-> outcome.data, retries |-> count]

\* the StepResult executeStep returns after the loop
ExhaustedResult(error, count) ==
    [success |-> FALSE, error |-> error, data |-> NoData, retries |-> count - 1]

\* an unknown type reported with the step's retries
UnknownTypeResultCounted(step) ==
    [success |-> FALSE, error |-> "Unknown step type: " \o step.type,
     data |-> NoData, retries |-> step.retries]

UnknownTypeResult(step) ==
    [success |-> FALSE, error |-> "Unknown step type: " \o step.type,
     data |-> NoData, retries |-> 0]

ValidationError(step) == "Invalid parameters for step type '" \o step.type \o "'"

----------------------------------------------------------------------------
(* The built-in executors and the timeout race *)

\* What the http endpoint can do with one request: answer 200, answer 500,
\* or not answer at all, in which case axios gives up after its own timeout.
AxiosTimeout == 30000
Ok200 == [status |-> 200, statusText |-> "OK", latency |-> 20]
Error500 == [status |-> 500, statusText |-> "Internal Server Error", latency |-> 20]
NoResponse == [status |-> 0, statusText |-> "", latency |-> AxiosTimeout]
Responses == {Ok200, Error500, NoResponse}

\* HttpStepExecutor.execute: it resolves in every case, with success=false
\* for an error status or a network error
HttpExecute(response) ==
    IF response.status >= 200 /\ response.status < 300
    THEN [kind |-> "ok", error |-> Undefined,
          data |-> StepData(JsNum(response.status), JsUndefined)]
    ELSE IF response.status # 0
    THEN [kind |-> "fail",
          error |-> "HTTP " \o ToString(response.status) \o ": " \o response.statusText,
          data |-> StepData(JsNum(response.status), JsUndefined)]
    ELSE [kind |-> "fail",
          error |-> "Network error: timeout of " \o ToString(AxiosTimeout)
                        \o "ms exceeded",
          data |-> NoData]

\* LogStepExecutor.execute
LogExecute(params, context) ==
    [kind |-> "ok", error |-> Undefined,
     data |-> StepData(JsUndefined, JsStr(replaceVariables(params.message, context)))]

\* WaitStepExecutor.execute
WaitExecute(params) == [kind |-> "ok", error |-> Undefined, data |-> NoData]

\* the time at which a promise that never settles settles: later than any
\* timer of the engine
Never == 2^30

\* what a call that never settles gives: nothing
Pending == [kind |-> "pending", error |-> Undefined, data |-> NoData]

\* step.timeout is set (if (!timeoutMs) return promise)
HasTimeout(step) == "timeout" \in DOMAIN step /\ step.timeout # 0

\* a race whose timer resolves with a failed result instead of rejecting
executeWithTimeoutResolving(step, latency, outcome) ==
    IF HasTimeout(step) /\ latency > step.timeout
    THEN [kind |-> "fail",
          error |-> "Step execution timed out after " \o ToString(step.timeout) \o "ms",
          data |-> NoData]
    ELSE outcome

\* executeWithTimeout: the race of the executor's promise, which settles
\* after latency ms, against the timer of the step's timeout
executeWithTimeout(step, latency, outcome) ==
    IF HasTimeout(step) /\ latency > step.timeout
    THEN [kind |-> "throw",
          error |-> "Step execution timed out after " \o ToString(step.timeout) \o "ms",
          data |-> NoData]
    ELSE outcome

\* an endpoint that answers its first requests as the script says
Endpoint(script) == [script |-> script, served |-> 0]

\* the step's executor sends a request the endpoint's script has an answer to
CallsEndpoint(step, server) == step.type = "http" /\ server.served < Len(server.script)

NextResponse(server) == server.script[server.served + 1]

\* the time the promise executor.execute returns takes to settle; an executor
\* the model knows no duration of is taken to settle at once
Latency(step, server) ==
    IF step.type = "wait" THEN step.params.duration
    ELSE IF step.type = "hang" THEN Never
    ELSE IF CallsEndpoint(step, server) THEN NextResponse(server).latency
    ELSE 0

\* the time Promise.race([promise, timeoutPromise]) takes to settle: neither
\* promise is cancelled when the other wins
RaceTime(step, latency) ==
    IF HasTimeout(step) /\ latency > step.timeout THEN step.timeout ELSE latency

\* a call of executor.execute made by attempt number attempt of step i, whose
\* promise settles at the time settles
ExecuteCall(i, attempt, settles) == [step |-> i, attempt |-> attempt, settles |-> settles]

\* the calls whose promises have not settled at the time now
Unsettled(calls, now) == { c \in calls : c.settles > now }

\* a fan-out that succeeds only without errors
ForEachSuccessStrict(errors, items) == Len(errors) = 0

\* line 170: !hasErrors || errors.length < items.length
ForEachSuccess(errors, items) == Len(errors) = 0 \/ Len(errors) < Len(items)

\* lines 117-119 and createBatches (lines 336-348): in parallel mode the
\* batches are cut by for (let i = 0; i < items.length; i += batchSize)
\* before the first await of execute(); with a negative maxConcurrency
\* (p.maxConcurrency || 5 keeps it) i never reaches items.length, and the
\* call of execute() does not return
ForEachBlocks(params) ==
    /\ "parallel" \in DOMAIN params
    /\ params.parallel
    /\ params.maxConcurrency < 0
    /\ Len(params.items) > 0

\* ForEachStepExecutor.execute as the step runner sees it: with any number
\* of its iterations rejected, it resolves with the success of line 170 and
\* with no error field (lines 169-181)
ForEachExecute(params) ==
    { [kind |-> IF ForEachSuccess([i \in 1..e |-> i], params.items)
                THEN "ok" ELSE "fail",
       error |-> Undefined,
       data |-> NoData] : e \in 0..Len(params.items) }

\* the outcomes of executeWithTimeout(executor.execute(params, context))
Outcomes(step, context, server) ==
    IF step.type = "log" THEN {LogExecute(step.params, context)}
    ELSE IF step.type = "wait"
    THEN {executeWithTimeout(step, step.params.duration, WaitExecute(step.params))}
    ELSE IF step.type = "foreach"
    THEN IF ForEachBlocks(step.params) THEN {Pending} ELSE ForEachExecute(step.params)
    ELSE IF step.type = "hang" THEN {executeWithTimeout(step, Never, Pending)}
    ELSE IF CallsEndpoint(step, server)
    THEN {executeWithTimeout(step, NextResponse(server).latency,
                             HttpExecute(NextResponse(server)))}
    ELSE ExecOutcomes

----------------------------------------------------------------------------
(* execute() *)

\* a loop that takes the steps from the end of the list
CurrentStepFromEnd == workflow[Len(workflow) + 1 - stepIdx]

\* for (const step of workflow.steps)
CurrentStep == workflow[stepIdx]

Context == [steps |-> run.steps]

\* the last plugin at or after position i that has the hook, 0 if none
NextHookLast(i) ==
    LET later == { j \in i..Len(plugins) : plugins[j].hooks }
    IN IF later = {} THEN 0 ELSE CHOOSE j \in later : \A k \in later : j >= k

\* the first plugin at or after position i that has the hook, 0 if none
NextHook(i) ==
    LET later == { j \in i..Len(plugins) : plugins[j].hooks }
    IN IF later = {} THEN 0 ELSE CHOOSE j \in later : \A k \in later : j <= k

\* for (const plugin of this.plugins) if (plugin.hooks?.X) await ...:
\* stand at the first hook to call, or go on when there is none
EnterHooks(from, phase, after) ==
    IF NextHook(from) = 0
    THEN pc' = after /\ hookIdx' = 0
    ELSE pc' = phase /\ hookIdx' = NextHook(from)

\* new Date(): the time of the engine's clock, which every call the engine
\* has made so far has advanced
Now == Len(trace) + 1

\* a catch block that fails the run without the exception's message
ThrowWithoutMessage(message) ==
    /\ run' = [run EXCEPT !.status = "failed", !.endTime = Now]
    /\ pc' = "catchUpdate"

\* the catch block of execute(), up to its await
Throw(message) ==
    /\ run' = [run EXCEPT !.status = "failed", !.error = message, !.endTime = Now]
    /\ pc' = "catchUpdate"

\* an object of variables: workflow.variables is optional
NoEntries == [n \in {} |-> JsUndefined]
Object(entries) == [defined |-> TRUE, entries |-> entries]
NoObject == [defined |-> FALSE, entries |-> NoEntries]

\* the default of the variables parameter of execute()
NoArgs == [workflowVariables |-> NoObject, variables |-> Object(NoEntries)]

\* { ...a, ...b }: the own entries of a, then those of b over them;
\* spreading undefined adds nothing
Spread(a, b) ==
    [n \in (DOMAIN a.entries) \cup (DOMAIN b.entries) |->
        IF n \in DOMAIN b.entries THEN b.entries[n] ELSE a.entries[n]]

\* a run creation that merges the caller's variables into the workflow's
\* own object with Object.assign and uses that object as run.variables
CreateRunAssigning(given) ==
    LET merged == Spread(given.workflowVariables, given.variables)
    IN [run |-> [status |-> "running", error |-> Undefined, endTime |-> NotEnded,
                 steps |-> EmptySteps, variables |-> merged],
        args |-> [given EXCEPT !.workflowVariables = Object(merged)]]

\* lines 47-54: the run object, with variables a new object literal; the two
\* objects it is spread from are only read
CreateRun(given) ==
    [run |-> [status |-> "running", error |-> Undefined, endTime |-> NotEnded,
              steps |-> EmptySteps,
              variables |-> Spread(given.workflowVariables, given.variables)],
     args |-> given]

\* lines 46-58: the run object is built
Execute ==
    /\ pc = "start"
    /\ run' = CreateRun(args).run
    /\ args' = CreateRun(args).args
    /\ pc' = "saveRun"
    /\ UNCHANGED <<endpoint, globals, clock, inFlight, outsideEngine>>
    /\ UNCHANGED <<stepExecutors, plugins, workflow, stepIdx, hookIdx, result,
                   retryCount, lastError, ledger, trace, results>>

\* line 62: await this.storage.saveRun(run)
SaveRun ==
    /\ pc = "saveRun"
    /\ trace' = Append(trace, Event("saveRun", 0, 0))
    /\ \/ /\ ledger' = saveRun(run)
          /\ EnterHooks(1, "beforeWorkflow", "loop")
          /\ stepIdx' = 1
          /\ UNCHANGED run
       \/ /\ Throw(LedgerError)
          /\ UNCHANGED <<ledger, stepIdx, hookIdx>>
    /\ UNCHANGED <<endpoint, globals, clock, inFlight, args, outsideEngine>>
    /\ UNCHANGED <<stepExecutors, plugins, workflow, result, retryCount, lastError,
                   results>>

\* one hook call of one of the four hook loops: it returns, and the loop goes
\* on to the next plugin that has the hook, or it throws
HookCall(phase, after, step) ==
    /\ trace' = Append(trace, Event(phase, step, hookIdx))
    /\ \/ /\ EnterHooks(hookIdx + 1, phase, after)
          /\ UNCHANGED run
       \/ /\ Throw(plugins[hookIdx].message)
          /\ UNCHANGED hookIdx
    /\ UNCHANGED <<endpoint, globals, clock, inFlight, args, outsideEngine>>
    /\ UNCHANGED <<stepExecutors, plugins, workflow, stepIdx, result, retryCount,
                   lastError, ledger, results>>

\* lines 65-72
BeforeWorkflowHook ==
    /\ pc = "beforeWorkflow"
    /\ HookCall("beforeWorkflow", "loop", 0)

\* a run whose status is left as the loop left it
FinalStatusKept(status) == status

\* lines 128-131: a run still running after the loop is completed
FinalStatus(status) == IF status = "running" THEN "completed" ELSE status

\* lines 75, 128-131: the loop is over
LoopEnd ==
    /\ pc = "loop"
    /\ stepIdx > Len(workflow)
    /\ pc' = "finish"
    /\ run' = [run EXCEPT !.status = FinalStatus(@)]
    /\ UNCHANGED <<endpoint, globals, clock, inFlight, args, outsideEngine>>
    /\ UNCHANGED <<stepExecutors, plugins, workflow, stepIdx, hookIdx, result,
                   retryCount, lastError, ledger, trace, results>>

\* line 86: step.condition && !evaluateCondition(step.condition, context)
StepIsSkipped(step) ==
    step.condition # NoCondition /\ ~evaluateCondition(step.condition, Context)

\* a skip that logs and then falls through into the step
SkipStepWithoutContinue ==
    /\ pc = "loop"
    /\ stepIdx <= Len(workflow)
    /\ StepIsSkipped(CurrentStep)
    /\ trace' = Append(trace, Event("skip", stepIdx, 0))
    /\ EnterHooks(1, "beforeStep", "executeStep")
    /\ globals' = AfterEvaluation(CurrentStep.condition, Context, globals)
    /\ UNCHANGED <<endpoint, clock, inFlight, args, outsideEngine>>
    /\ UNCHANGED <<stepExecutors, plugins, workflow, stepIdx, run, result,
                   retryCount, lastError, ledger, results>>

\* lines 86-91: the condition is not met; the skip is logged, continue
SkipStep ==
    /\ pc = "loop"
    /\ stepIdx <= Len(workflow)
    /\ StepIsSkipped(CurrentStep)
    /\ trace' = Append(trace, Event("skip", stepIdx, 0))
    /\ stepIdx' = stepIdx + 1
    /\ globals' = AfterEvaluation(CurrentStep.condition, Context, globals)
    /\ UNCHANGED <<endpoint, clock, inFlight, args, outsideEngine>>
    /\ UNCHANGED <<stepExecutors, plugins, workflow, pc, hookIdx, run, result,
                   retryCount, lastError, ledger, results>>

\* lines 86, 93-98: the step is entered
EnterStep ==
    /\ pc = "loop"
    /\ stepIdx <= Len(workflow)
    /\ ~StepIsSkipped(CurrentStep)
    /\ trace' = Append(trace, Event("enter", stepIdx, 0))
    /\ EnterHooks(1, "beforeStep", "executeStep")
    /\ globals' = AfterEvaluation(CurrentStep.condition, Context, globals)
    /\ UNCHANGED <<endpoint, clock, inFlight, args, outsideEngine>>
    /\ UNCHANGED <<stepExecutors, plugins, workflow, stepIdx, run, result,
                   retryCount, lastError, ledger, results>>

\* lines 94-98
BeforeStepHook ==
    /\ pc = "beforeStep"
    /\ HookCall("beforeStep", "executeStep", stepIdx)

\* lines 100-108: executeStep has returned res; it is recorded under the
\* step's name and the afterStep hook loop starts
RecordResult(res) ==
    /\ result' = res
    /\ results' = Append(results, [step |-> stepIdx, result |-> res])
    /\ run' = [run EXCEPT !.steps = PutStep(@, CurrentStep.name, res)]
    /\ EnterHooks(1, "afterStep", "checkpoint")

\* lines 174-187: the executor is looked up
ExecuteStep ==
    /\ pc = "executeStep"
    /\ IF CurrentStep.type \in DOMAIN stepExecutors
       THEN /\ retryCount' = 0
            /\ lastError' = Undefined
            /\ pc' = "attempt"
            /\ UNCHANGED <<run, result, hookIdx, results>>
       ELSE /\ RecordResult(UnknownTypeResult(CurrentStep))
            /\ UNCHANGED <<retryCount, lastError>>
    /\ UNCHANGED <<endpoint, globals, clock, inFlight, args, outsideEngine>>
    /\ UNCHANGED <<stepExecutors, plugins, workflow, stepIdx, ledger, trace>>

\* a catch block that rethrows the exception of the last attempt
AfterAttemptRethrows(step, count, last, outcome) ==
    IF outcome.kind = "throw"
    THEN [retryCount |-> count + 1,
          lastError |-> outcome.error,
          again |-> AttemptsRemain(count + 1, step),
          threw |-> ~AttemptsRemain(count + 1, step),
          result |-> ExhaustedResult(outcome.error, count + 1)]
    ELSE [retryCount |-> count,
          lastError |-> last,
          again |-> FALSE,
          threw |-> FALSE,
          result |-> ResolvedResult(outcome, count)]

\* What executeStep does with the outcome of one attempt, made with
\* retryCount = count. An attempt that resolves returns at once, whatever
\* its success flag (lines 200-216); one that throws goes through the catch
\* block (lines 217-230) and either backs off for another attempt or leaves
\* the loop (lines 233-240). The try block holds the validate and the execute
\* call and the await of the race, and the catch block rethrows nothing:
\* no exception of an attempt leaves executeStep (threw).
AfterAttempt(step, count, last, outcome) ==
    IF outcome.kind = "throw"
    THEN [retryCount |-> count + 1,
          lastError |-> outcome.error,
          again |-> AttemptsRemain(count + 1, step),
          threw |-> FALSE,
          result |-> ExhaustedResult(outcome.error, count + 1)]
    ELSE [retryCount |-> count,
          lastError |-> last,
          again |-> FALSE,
          threw |-> FALSE,
          result |-> ResolvedResult(outcome, count)]

\* the outcome of an attempt whose validate call returned false: line 197
\* throws inside the try block
InvalidOutcome(step) ==
    [kind |-> "throw", error |-> ValidationError(step), data |-> NoData]

\* the outcomes with which the await of line 201 ends
Settling(outcomes) == { o \in outcomes : o.kind # "pending" }

\* lines 189-240: one attempt of the loop; line 100 awaits executeStep
\* inside the try block of execute(), whose catch would take what it threw;
\* an attempt whose call or race never ends is never left
Attempt ==
    /\ pc = "attempt"
    /\ retryCount <= CurrentStep.retries
    /\ LET executor == stepExecutors[CurrentStep.type]
           valid == ~executor.hasValidate
                    \/ validate(CurrentStep.type, CurrentStep.params)
           checked == IF executor.hasValidate
                      THEN <<Event("validate", stepIdx, retryCount + 1)>>
                      ELSE <<>>
           called == IF valid
                     THEN <<Event("execute", stepIdx, retryCount + 1)>>
                     ELSE <<>>
       IN /\ trace' = trace \o checked \o called
          /\ endpoint' = IF valid /\ CallsEndpoint(CurrentStep, endpoint)
                          THEN [endpoint EXCEPT !.served = @ + 1] ELSE endpoint
          /\ clock' = IF valid
                       THEN clock + RaceTime(CurrentStep, Latency(CurrentStep, endpoint))
                       ELSE clock
          /\ inFlight' = IF valid
                          THEN Unsettled(inFlight \cup {ExecuteCall(stepIdx, retryCount + 1,
                                            clock + Latency(CurrentStep, endpoint))},
                                         clock')
                          ELSE inFlight
          /\ \E outcome \in IF valid
                            THEN Settling(Outcomes(CurrentStep, Context, endpoint))
                            ELSE {InvalidOutcome(CurrentStep)} :
               LET after == AfterAttempt(CurrentStep, retryCount, lastError, outcome)
               IN /\ retryCount' = after.retryCount
                  /\ lastError' = after.lastError
                  /\ IF after.threw
                     THEN /\ Throw(after.lastError)
                          /\ UNCHANGED <<result, hookIdx, results>>
                     ELSE IF after.again
                     THEN /\ pc' = "backoff"
                          /\ UNCHANGED <<run, result, hookIdx, results>>
                     ELSE RecordResult(after.result)
    /\ UNCHANGED <<globals, args, outsideEngine>>
    /\ UNCHANGED <<stepExecutors, plugins, workflow, stepIdx, ledger>>

\* lines 225-229: the wait before the next attempt
Backoff ==
    /\ pc = "backoff"
    /\ trace' = Append(trace, Event("sleep", stepIdx, BackoffDelay(retryCount)))
    /\ pc' = "attempt"
    /\ clock' = clock + BackoffDelay(retryCount)
    /\ inFlight' = Unsettled(inFlight, clock')
    /\ UNCHANGED <<endpoint, globals, args, outsideEngine>>
    /\ UNCHANGED <<stepExecutors, plugins, workflow, stepIdx, hookIdx, run, result,
                   retryCount, lastError, ledger, results>>

\* lines 104-108
AfterStepHook ==
    /\ pc = "afterStep"
    /\ HookCall("afterStep", "checkpoint", stepIdx)

\* a loop that breaks on the other onError value
StopsRunOnContinue(step, res) == ~res.success /\ step.onError = "continue"

\* a loop that breaks on every failed step
StopsRunAlways(step, res) == ~res.success

\* lines 114-118: a failed step with onError=stop ends the loop
StopsRun(step, res) == ~res.success /\ step.onError = "stop"

\* a run error that drops the step's name
StepFailedErrorBare(step, res) == "Step failed: " \o res.error

\* line 117
StepFailedError(step, res) == "Step '" \o step.name \o "' failed: " \o res.error

\* lines 111-125: the checkpoint, then the handling of a failed step
Checkpoint ==
    /\ pc = "checkpoint"
    /\ trace' = Append(trace, Event("updateSteps", stepIdx, 0))
    /\ \/ /\ ledger' = updateRun(ledger, [steps |-> run.steps])
          /\ IF StopsRun(CurrentStep, result)
             THEN /\ run' = [run EXCEPT !.status = "failed",
                                        !.error = StepFailedError(CurrentStep, result)]
                  /\ pc' = "finish"
                  /\ UNCHANGED stepIdx
             ELSE /\ stepIdx' = stepIdx + 1
                  /\ pc' = "loop"
                  /\ UNCHANGED run
       \/ /\ Throw(LedgerError)
          /\ UNCHANGED <<ledger, stepIdx>>
    /\ UNCHANGED <<endpoint, globals, clock, inFlight, args, outsideEngine>>
    /\ UNCHANGED <<stepExecutors, plugins, workflow, hookIdx, result, retryCount,
                   lastError, results>>

\* lines 133-138: the final updateRun
Finish ==
    /\ pc = "finish"
    /\ trace' = Append(trace, Event("updateFinal", 0, 0))
    /\ \/ /\ run' = [run EXCEPT !.endTime = Now]
          /\ ledger' = updateRun(ledger, [status |-> run.status, endTime |-> Now,
                                          error |-> run.error])
          /\ EnterHooks(1, "afterWorkflow", "returned")
       \/ /\ Throw(LedgerError)
          /\ UNCHANGED <<ledger, hookIdx>>
    /\ UNCHANGED <<endpoint, globals, clock, inFlight, args, outsideEngine>>
    /\ UNCHANGED <<stepExecutors, plugins, workflow, stepIdx, result, retryCount,
                   lastError, results>>

\* lines 141-150
AfterWorkflowHook ==
    /\ pc = "afterWorkflow"
    /\ HookCall("afterWorkflow", "returned", 0)

\* lines 156-166: the updateRun of the catch block is not itself guarded;
\* when it fails, execute() rejects
CatchUpdate ==
    /\ pc = "catchUpdate"
    /\ trace' = Append(trace, Event("updateCatch", 0, 0))
    /\ \/ /\ ledger' = updateRun(ledger, [status |-> run.status,
                                          endTime |-> run.endTime,
                                          error |-> run.error])
          /\ pc' = "returned"
       \/ /\ pc' = "rejected"
          /\ UNCHANGED ledger
    /\ UNCHANGED <<endpoint, globals, clock, inFlight, args, outsideEngine>>
    /\ UNCHANGED <<stepExecutors, plugins, workflow, stepIdx, hookIdx, run, result,
                   retryCount, lastError, results>>

Next ==
    \/ Execute
    \/ SaveRun
    \/ BeforeWorkflowHook
    \/ LoopEnd
    \/ SkipStep
    \/ EnterStep
    \/ BeforeStepHook
    \/ ExecuteStep
    \/ Attempt
    \/ Backoff
    \/ AfterStepHook
    \/ Checkpoint
    \/ Finish
    \/ AfterWorkflowHook
    \/ CatchUpdate

----------------------------------------------------------------------------
(* WorkflowLoader *)

\* WorkflowSchema.parse: the steps are objects with a name, a type and
\* params (retries and onError have defaults, condition is optional)
SchemaErrors(steps) ==
    UNION { { "steps." \o ToString(i - 1) \o "." \o f \o ": Required" :
                f \in {"name", "type", "params"} \ DOMAIN steps[i] } :
            i \in DOMAIN steps }

\* lines 80-156, for the steps the model has: a name seen before is a
\* duplicate, a type is required, an http step requires url and method
CustomErrors(steps) ==
    { "Step " \o ToString(i - 1) \o ": duplicate step name '" \o steps[i].name \o "'" :
        i \in { j \in DOMAIN steps : \E k \in 1..(j - 1) : steps[k].name = steps[j].name } }
    \cup { "Step " \o steps[i].name \o ": type is required" :
             i \in { j \in DOMAIN steps : "type" \notin DOMAIN steps[j] } }
    \cup { "Step " \o steps[i].name \o ": HTTP step requires 'url' parameter" :
             i \in { j \in DOMAIN steps : /\ "type" \in DOMAIN steps[j]
                                           /\ steps[j].type = "http"
                                           /\ steps[j].params.url = "" } }

\* WorkflowLoader.validateWorkflow: when the schema parses, the document is
\* valid (line 67); the custom checks run only after a schema error
validateWorkflow(steps) ==
    IF SchemaErrors(steps) = {}
    THEN [valid |-> TRUE, errors |-> {}]
    ELSE LET errors == SchemaErrors(steps) \cup CustomErrors(steps)
         IN [valid |-> errors = {}, errors |-> errors]

\* loadFromFile, lines 19-25, and the caller that executes what it returns
\* (cli/index.ts lines 47-50): an invalid document is thrown out
LoadWorkflow ==
    /\ pc = "load"
    /\ pc' = IF validateWorkflow(workflow).valid THEN "start" ELSE "invalid"
    /\ UNCHANGED <<endpoint, globals, clock, inFlight, args, outsideEngine>>
    /\ UNCHANGED <<stepExecutors, plugins, workflow, stepIdx, hookIdx, run, result,
                   retryCount, lastError, ledger, trace, results>>

NextLoader ==
    \/ LoadWorkflow
    \/ Next

----------------------------------------------------------------------------
(* ForEachStepExecutor (fan-out) *)

\* A JavaScript array that may have holes is a function from the indices
\* that were assigned, counted from 0, to their elements.
EmptyArray == [i \in {} |-> Undefined]

\* results.push(value) on an array without holes beyond its length
ArrayPush(array, index, value) ==
    LET length == Cardinality(DOMAIN array)
    IN [i \in (DOMAIN array) \cup {length} |-> IF i = length THEN value ELSE array[i]]

\* results[index] = value
ArraySet(array, index, value) ==
    [i \in (DOMAIN array) \cup {index} |-> IF i = index THEN value ELSE array[i]]

\* the settlement of the promise of iteration index is added to the others
Settle(settlements, index, settled) ==
    [i \in (DOMAIN settlements) \cup {index} |->
        IF i = index THEN settled ELSE settlements[i]]

\* a sub-step of the nested sequence, with the defaults of lines 228-232
SubStep(name, type, condition, onError) ==
    [name |-> name, type |-> type, condition |-> condition, onError |-> onError]

ScriptError == "item is not defined"

\* executeNestedStep: log and script are implemented, every other type
\* fails; a script fails when its code throws. Nothing is thrown to the
\* caller.
executeNestedStep(step, throws) ==
    IF step.type = "log"
    THEN [success |-> TRUE, error |-> Undefined, data |-> NoData, retries |-> 0]
    ELSE IF step.type = "script"
    THEN [success |-> ~throws, error |-> IF throws THEN ScriptError ELSE Undefined,
          data |-> NoData, retries |-> 0]
    ELSE [success |-> FALSE,
          error |-> "Unsupported nested step type: " \o step.type
                        \o ". Use a script step for complex operations.",
          data |-> NoData, retries |-> 0]

\* the settlement of the promise of an iteration; steps is what the
\* iteration had recorded of its sub-steps when the promise settled
Fulfilled(value, steps) ==
    [status |-> "fulfilled", value |-> value, reason |-> "", steps |-> steps]
Rejected(reason, steps) ==
    [status |-> "rejected", value |-> EmptySteps, reason |-> reason, steps |-> steps]

\* an iteration that every failed sub-step aborts
AbortsIterationAlways(step, res) == ~res.success

\* lines 241-243: a failed sub-step with onError=stop throws
AbortsIteration(step, res) == ~res.success /\ step.onError = "stop"

\* line 243
IterationError(step, index, res) ==
    "Step '" \o step.name \o "' failed in iteration " \o ToString(index)
        \o ": " \o res.error

\* The objects a StepContext refers to are known by their identity; the
\* heap maps each object to its entries. The parent context of the fan-out
\* refers to these two:
ParentVariables == "variables"
ParentSteps == "steps"

\* what the parent context holds when the fan-out starts: the variables of
\* the run, and the result of an earlier step that bears the name of the
\* first sub-step
OuterVariables == [shared |-> JsNum(100)]
OuterSteps ==
    [s1 |-> [success |-> TRUE, error |-> Undefined, data |-> NoData, retries |-> 0]]

ParentHeap ==
    [o \in {ParentVariables, ParentSteps} |->
        IF o = ParentVariables THEN OuterVariables ELSE OuterSteps]

\* an iteration context that refers to the objects of the parent context
IterationObjectShared(kind, index) == kind

\* lines 205 and 210: an object literal makes a new object
IterationObject(kind, index) == kind \o "#" \o ToString(index)

\* lines 203-212: the context of the iteration of an index
IterationContext(index) ==
    [variables |-> IterationObject(ParentVariables, index),
     steps |-> IterationObject(ParentSteps, index)]

\* { ...parentContext.variables, [itemVariable]: item, [indexVariable]: index }
\* with the default names of the two variables
IterationVariables(parentVariables, item, index) ==
    [n \in (DOMAIN parentVariables) \cup {"item", "index"} |->
        IF n = "item" THEN JsStr(item)
        ELSE IF n = "index" THEN JsNum(index)
        ELSE parentVariables[n]]

\* the object is given these entries
Allocate(heap, object, entries) ==
    [o \in (DOMAIN heap) \cup {object} |-> IF o = object THEN entries ELSE heap[o]]

\* object[name] = value
SetEntry(heap, object, name, value) ==
    LET entries == heap[object]
    IN [heap EXCEPT ![object] =
            [n \in (DOMAIN entries) \cup {name} |->
                IF n = name THEN value ELSE entries[n]]]

\* delete object[name]
DeleteEntry(heap, object, name) ==
    LET entries == heap[object]
    IN [heap EXCEPT ![object] = [n \in (DOMAIN entries) \ {name} |-> entries[n]]]

\* lines 203-214: executeIteration builds the context of its iteration
NewIterationContext(heap, item, index) ==
    LET context == IterationContext(index)
        variables == IterationVariables(heap[ParentVariables], item, index)
    IN Allocate(Allocate(heap, context.variables, variables),
                context.steps, EmptySteps)

\* The code of a script sub-step gets the context of its iteration. The
\* codes of the model: one that only returns, one that assigns a variable
\* of its context, one that deletes it.
ScriptCodes == {"return", "assign", "delete"}

ScriptCode(step) == IF "code" \in DOMAIN step THEN step.code ELSE "return"

\* lines 279-280: func(context), for a code that does not throw
RunScript(step, heap, context, index) ==
    IF ScriptCode(step) = "assign"
    THEN SetEntry(heap, context.variables, "shared", JsNum(index))
    ELSE IF ScriptCode(step) = "delete"
    THEN DeleteEntry(heap, context.variables, "shared")
    ELSE heap

\* lines 217-257: the loop of executeIteration from sub-step k on, with the
\* iterationResults so far; throws[j] tells whether the code of sub-step j
\* throws. It gives the settlement of the iteration's promise and the heap
\* the iteration leaves.
RECURSIVE IterationFrom(_, _, _, _, _, _, _)
IterationFrom(k, iterationResults, heap, item, index, steps, throws) ==
    IF k > Len(steps)
    THEN [settled |-> Fulfilled([item |-> item, index |-> index,
                                 steps |-> iterationResults], iterationResults),
          heap |-> heap]
    ELSE LET step == steps[k]
             context == IterationContext(index)
             res == executeNestedStep(step, throws[k])
             ran == IF step.type = "script" /\ ~throws[k]
                    THEN RunScript(step, heap, context, index)
                    ELSE heap
             recorded == PutStep(iterationResults, step.name, res)
             stored == SetEntry(ran, context.steps, step.name, res)
         IN IF step.condition # NoCondition
               /\ ~evaluateCondition(step.condition, [steps |-> heap[context.steps]])
            THEN IterationFrom(k + 1, iterationResults, heap, item, index, steps, throws)
            ELSE IF AbortsIteration(step, res)
            THEN [settled |-> Rejected(IterationError(step, index, res), recorded),
                  heap |-> stored]
            ELSE IterationFrom(k + 1, recorded, stored, item, index, steps, throws)

\* executeIteration(item, index, steps, ...), once its context is built
executeIteration(item, index, steps, throws, heap) ==
    IterationFrom(1, EmptySteps, heap, item, index, steps, throws)

\* createBatches from position i on
RECURSIVE BatchesFrom(_, _, _)
BatchesFrom(items, batchSize, i) ==
    IF i >= Len(items) THEN <<>>
    ELSE <<[k \in 1..Min(batchSize, Len(items) - i) |->
               [item |-> items[i + k], index |-> i + k - 1]]>>
         \o BatchesFrom(items, batchSize, i + batchSize)

\* createBatches(items, batchSize)
createBatches(items, batchSize) == BatchesFrom(items, batchSize, 0)

DefaultConcurrency == 5

\* a concurrency that is always the default
maxConcurrencyIgnored(p) == DefaultConcurrency

\* p.maxConcurrency || 5; an absent maxConcurrency is 0 here
maxConcurrencyOf(p) ==
    IF p.maxConcurrency = 0 THEN DefaultConcurrency ELSE p.maxConcurrency

\* a result that counts results.length, holes included, as successes
ForEachResultCountingHoles(resultsArray, errors, items) ==
    [success |-> ForEachSuccess(errors, items),
     data |-> [results |-> resultsArray,
               errors |-> errors,
               totalItems |-> Len(items),
               successCount |-> IF DOMAIN resultsArray = {} THEN 0
                                ELSE 1 + CHOOSE m \in DOMAIN resultsArray :
                                            \A i \in DOMAIN resultsArray : i <= m,
               errorCount |-> Len(errors)],
     retries |-> 0]

\* lines 169-181
ForEachResult(resultsArray, errors, items) ==
    [success |-> ForEachSuccess(errors, items),
     data |-> [results |-> resultsArray,
               errors |-> errors,
               totalItems |-> Len(items),
               successCount |-> Cardinality(DOMAIN resultsArray),
               errorCount |-> Len(errors)],
     retries |-> 0]

NoForEachResult == ForEachResult(EmptyArray, <<>>, <<>>)

\* the sets of code throwing among the sub-steps
Throws == [1..Len(feParams.steps) -> BOOLEAN]

\* the element of the items array at a JavaScript index
ItemAt(index) == feParams.items[index + 1]

\* lines 92-119: the items are an array; the mode is chosen
FeExecute ==
    /\ fePc = "start"
    /\ IF feParams.parallel
       THEN /\ feBatches' = createBatches(feParams.items, maxConcurrencyOf(feParams))
            /\ fePc' = "batch"
            /\ feI' = 1
       ELSE /\ fePc' = "seq"
            /\ feI' = 0
            /\ UNCHANGED feBatches
    /\ UNCHANGED <<feParams, feInFlight, feBatchResults, feSettled, feResults,
                   feErrors, feReturn, feHeap>>
    /\ UNCHANGED <<engineVars, storageVars, replaceVars, concurrentVars>>

\* the heap once the contexts of the iterations of a batch are built, from
\* position k of the batch on
RECURSIVE ContextsFrom(_, _, _)
ContextsFrom(k, batch, heap) ==
    IF k > Len(batch) THEN heap
    ELSE ContextsFrom(k + 1, batch,
                      NewIterationContext(heap, batch[k].item, batch[k].index))

\* lines 121-126: the iterations of the batch are started by batch.map
FeLaunchBatch ==
    /\ fePc = "batch"
    /\ feI <= Len(feBatches)
    /\ feInFlight' = { feBatches[feI][k].index : k \in DOMAIN feBatches[feI] }
    /\ feBatchResults' = EmptyArray
    /\ feHeap' = ContextsFrom(1, feBatches[feI], feHeap)
    /\ fePc' = "await"
    /\ UNCHANGED <<feParams, feI, feBatches, feSettled, feResults, feErrors, feReturn>>
    /\ UNCHANGED <<engineVars, storageVars, replaceVars, concurrentVars>>

\* one iteration of the batch in flight settles
FeSettle ==
    /\ fePc = "await"
    /\ \E index \in feInFlight, throws \in Throws :
         LET iteration == executeIteration(ItemAt(index), index, feParams.steps,
                                           throws, feHeap)
         IN /\ feInFlight' = feInFlight \ {index}
            /\ feBatchResults' = Settle(feBatchResults, index, iteration.settled)
            /\ feSettled' = Settle(feSettled, index, iteration.settled)
            /\ feHeap' = iteration.heap
    /\ UNCHANGED <<feParams, fePc, feI, feBatches, feResults, feErrors, feReturn>>
    /\ UNCHANGED <<engineVars, storageVars, replaceVars, concurrentVars>>

\* batchResults.forEach from position k of the batch on
RECURSIVE CollectFrom(_, _, _, _, _)
CollectFrom(k, batch, batchResults, resultsArray, errors) ==
    IF k > Len(batch) THEN [results |-> resultsArray, errors |-> errors]
    ELSE LET originalIndex == batch[k].index
             settled == batchResults[originalIndex]
         IN IF settled.status = "fulfilled"
            THEN CollectFrom(k + 1, batch, batchResults,
                             ArraySet(resultsArray, originalIndex, settled.value),
                             errors)
            ELSE CollectFrom(k + 1, batch, batchResults, resultsArray,
                             Append(errors, [index |-> originalIndex,
                                             error |-> settled.reason]))

\* lines 126-139: Promise.allSettled resolves, the batch is collected
FeCollect ==
    /\ fePc = "await"
    /\ feInFlight = {}
    /\ LET collected == CollectFrom(1, feBatches[feI], feBatchResults,
                                    feResults, feErrors)
       IN /\ feResults' = collected.results
          /\ feErrors' = collected.errors
    /\ feI' = feI + 1
    /\ fePc' = "batch"
    /\ UNCHANGED <<feParams, feBatches, feInFlight, feBatchResults, feSettled,
                   feReturn, feHeap>>
    /\ UNCHANGED <<engineVars, storageVars, replaceVars, concurrentVars>>

\* lines 142-151: the iteration of item i is started
FeSeqStart ==
    /\ fePc = "seq"
    /\ feI < Len(feParams.items)
    /\ feInFlight' = {feI}
    /\ feHeap' = NewIterationContext(feHeap, ItemAt(feI), feI)
    /\ fePc' = "seqAwait"
    /\ UNCHANGED <<feParams, feI, feBatches, feBatchResults, feSettled, feResults,
                   feErrors, feReturn>>
    /\ UNCHANGED <<engineVars, storageVars, replaceVars, concurrentVars>>

\* lines 144-158: the iteration settles; its result is stored or its error
\* is pushed
FeSeqSettle ==
    /\ fePc = "seqAwait"
    /\ \E throws \in Throws :
         LET iteration == executeIteration(ItemAt(feI), feI, feParams.steps,
                                           throws, feHeap)
             settled == iteration.settled
         IN /\ feSettled' = Settle(feSettled, feI, settled)
            /\ feHeap' = iteration.heap
            /\ IF settled.status = "fulfilled"
               THEN /\ feResults' = ArraySet(feResults, feI, settled.value)
                    /\ UNCHANGED feErrors
               ELSE /\ feErrors' = Append(feErrors, [index |-> feI,
                                                     error |-> settled.reason])
                    /\ UNCHANGED feResults
    /\ feInFlight' = {}
    /\ feI' = feI + 1
    /\ fePc' = "seq"
    /\ UNCHANGED <<feParams, feBatches, feBatchResults, feReturn>>
    /\ UNCHANGED <<engineVars, storageVars, replaceVars, concurrentVars>>

\* lines 162-181: the loops are over, the result is returned
FeReturn ==
    /\ \/ fePc = "seq" /\ feI >= Len(feParams.items)
       \/ fePc = "batch" /\ feI > Len(feBatches)
    /\ feReturn' = ForEachResult(feResults, feErrors, feParams.items)
    /\ fePc' = "done"
    /\ UNCHANGED <<feParams, feI, feBatches, feInFlight, feBatchResults, feSettled,
                   feResults, feErrors, feHeap>>
    /\ UNCHANGED <<engineVars, storageVars, replaceVars, concurrentVars>>

NextForEach ==
    \/ FeExecute
    \/ FeLaunchBatch
    \/ FeSettle
    \/ FeCollect
    \/ FeSeqStart
    \/ FeSeqSettle
    \/ FeReturn

\* no fan-out is running
ForEachIdle ==
    /\ feParams = [items |-> <<>>, steps |-> <<>>, parallel |-> FALSE,
                   maxConcurrency |-> 0]
    /\ fePc = "idle"
    /\ feI = 0
    /\ feBatches = <<>>
    /\ feInFlight = {}
    /\ feBatchResults = EmptyArray
    /\ feSettled = EmptyArray
    /\ feResults = EmptyArray
    /\ feErrors = <<>>
    /\ feReturn = NoForEachResult
    /\ feHeap = ParentHeap

----------------------------------------------------------------------------
(* SqliteStorage: saveRun, updateRun and getRun on the row of one run *)

NotFetched == [called |-> FALSE]

\* the fields of a run that no call has supplied yet
NothingSupplied == [given |-> FALSE]

\* the fields a saveRun supplies: all of them
SuppliedBy(r) ==
    [given |-> TRUE, status |-> r.status, endTime |-> r.endTime, steps |-> r.steps,
     variables |-> r.variables, error |-> r.error]

\* the fields after an update: those it supplies are replaced
SuppliedAfter(supplied, updates) ==
    [given |-> TRUE,
     status |-> IF Has(updates, "status") THEN updates.status ELSE supplied.status,
     endTime |-> IF Has(updates, "endTime") THEN updates.endTime ELSE supplied.endTime,
     steps |-> IF Has(updates, "steps") THEN updates.steps ELSE supplied.steps,
     variables |-> IF Has(updates, "variables") THEN updates.variables
                   ELSE supplied.variables,
     error |-> IF Has(updates, "error") /\ updates.error.type # "undefined"
               THEN updates.error ELSE supplied.error]

\* a StepResult as the executors build it: timestamp is a Date, error is
\* set on failure only
StoredResult(success, t) ==
    [success |-> JsBool(success),
     error |-> IF success THEN JsUndefined ELSE JsStr(ExecErrorReturned),
     duration |-> JsNum(20),
     timestamp |-> JsDate(t),
     retries |-> JsNum(0)]

\* the steps of a run at its checkpoints
CheckpointSteps ==
    { EmptySteps,
      [n \in {"s1"} |-> StoredResult(TRUE, 1)],
      [n \in {"s1", "s2"} |-> IF n = "s1" THEN StoredResult(TRUE, 1)
                                          ELSE StoredResult(FALSE, 2)] }

\* the variables of a run: none, a number and a string, a Date
RunVariables ==
    { [n \in {} |-> JsUndefined],
      [n \in {"count", "name"} |-> IF n = "count" THEN JsNum(3) ELSE JsStr("nightly")],
      [n \in {"since"} |-> JsDate(0)] }

\* the runs saveRun is given: a run that has just started
NewRuns ==
    { [status |-> "running", endTime |-> JsUndefined, steps |-> EmptySteps,
       variables |-> v, error |-> JsUndefined] : v \in RunVariables }

\* the values an update can supply for a field
FieldValues(field) ==
    IF field = "status" THEN {"completed", "failed"}
    ELSE IF field = "endTime" THEN {JsDate(3)}
    ELSE IF field = "steps" THEN CheckpointSteps
    ELSE IF field = "variables" THEN RunVariables
    ELSE {JsUndefined, JsStr("Step 's2' failed: " \o ExecErrorReturned)}

\* a field of an update: absent, or one of its values
Optional(values) == { <<>> } \cup { <<v>> : v \in values }

\* the update with the fields that are given
Partial(status, endTime, steps, variables, error) ==
    LET given == [status |-> status, endTime |-> endTime, steps |-> steps,
                  variables |-> variables, error |-> error]
    IN [f \in { g \in DOMAIN given : given[g] # <<>> } |-> given[f][1]]

\* Partial<WorkflowRun>: any of the fields
PartialRuns ==
    { Partial(status, endTime, steps, variables, error) :
        status \in Optional(FieldValues("status")),
        endTime \in Optional(FieldValues("endTime")),
        steps \in Optional(FieldValues("steps")),
        variables \in Optional(FieldValues("variables")),
        error \in Optional(FieldValues("error")) }

\* saveRun(run)
DbSaveRun ==
    /\ ~dbRow.exists
    /\ \E r \in NewRuns :
         /\ dbRow' = SqliteSaveRun(r)
         /\ dbSupplied' = SuppliedBy(r)
    /\ dbFetched' = NotFetched
    /\ UNCHANGED dbCalls
    /\ UNCHANGED <<engineVars, forEachVars, replaceVars, concurrentVars>>

\* updateRun(run.id, updates)
DbUpdateRun ==
    /\ dbRow.exists
    /\ dbCalls < MaxUpdates
    /\ \E updates \in PartialRuns :
         /\ dbRow' = SqliteUpdateRun(dbRow, updates)
         /\ dbSupplied' = SuppliedAfter(dbSupplied, updates)
    /\ dbCalls' = dbCalls + 1
    /\ dbFetched' = NotFetched
    /\ UNCHANGED <<engineVars, forEachVars, replaceVars, concurrentVars>>

\* getRun(run.id)
DbGetRun ==
    /\ dbFetched' = [called |-> TRUE, result |-> getRun(dbRow)]
    /\ UNCHANGED <<dbRow, dbCalls, dbSupplied>>
    /\ UNCHANGED <<engineVars, forEachVars, replaceVars, concurrentVars>>

NextStorage ==
    \/ DbSaveRun
    \/ DbUpdateRun
    \/ DbGetRun

\* no call has been made on the storage
StorageIdle ==
    /\ dbRow = NoDbRow
    /\ dbCalls = 0
    /\ dbSupplied = NothingSupplied
    /\ dbFetched = NotFetched

\* replaceVariables has not been called
NoText == [text |-> <<>>, context |-> [steps |-> EmptySteps]]
NotReturned == [returned |-> FALSE]
ReplaceIdle ==
    /\ rvInput = NoText
    /\ rvOutput = NotReturned

\* replaceVariables(text, context) is called and returns
ReplaceVariables ==
    /\ ~rvOutput.returned
    /\ rvOutput' = [returned |-> TRUE,
                    text |-> replaceVariables(rvInput.text, rvInput.context)]
    /\ UNCHANGED rvInput
    /\ UNCHANGED <<engineVars, forEachVars, storageVars, concurrentVars>>

NextReplace == ReplaceVariables

----------------------------------------------------------------------------
(* Two calls of execute() on one engine *)

\* the run ids of the two calls
CallIds == {1, 2}

\* a condition that reads a name of the global object
CondReadsGlobal == <<Lit("evaluated")>>

\* EvalJs in a process whose global object has the names of defined: the
\* text that reads a name gives its value (true, the value the assignment
\* of the model gives it) when the name is defined and throws a
\* ReferenceError when it is not
EvalJsIn(text, defined) ==
    IF text = "evaluated"
    THEN [threw |-> "evaluated" \notin defined, truthy |-> "evaluated" \in defined,
          assigns |-> {}]
    ELSE EvalJs(text)

\* evaluateCondition in such a process
evaluateConditionIn(condition, context, defined) ==
    LET value == EvalJsIn(processCondition(condition, context), defined)
    IN IF value.threw THEN FALSE ELSE value.truthy

\* lines 75-91: the loop from step i on, up to the first step whose
\* condition lets it run; nothing is awaited on the way. It gives the index
\* the loop stops at and the names the evaluated conditions have defined.
RECURSIVE SkipFrom(_, _, _, _)
SkipFrom(i, steps, runSteps, defined) ==
    IF i > Len(steps) THEN [stepIdx |-> i, defined |-> defined]
    ELSE LET step == steps[i]
             context == [steps |-> runSteps]
         IN IF step.condition # NoCondition
               /\ ~evaluateConditionIn(step.condition, context, defined)
            THEN SkipFrom(i + 1, steps, runSteps,
                          AfterEvaluation(step.condition, context, defined))
            ELSE [stepIdx |-> i,
                  defined |-> AfterEvaluation(step.condition, context, defined)]

\* no call is under way
NoCall == [workflow |-> <<>>, pc |-> "idle", stepIdx |-> 0,
           run |-> CreateRun(NoArgs).run]

ConcurrentIdle ==
    /\ executeCalls = [c \in CallIds |-> NoCall]
    /\ rows = [c \in CallIds |-> NoRow]
    /\ shared = {}

\* lines 46-62: the run is created under its own id and saved
CallExecute(c) ==
    /\ executeCalls[c].pc = "start"
    /\ executeCalls' = [executeCalls EXCEPT ![c].run = CreateRun(NoArgs).run,
                              ![c].stepIdx = 1,
                              ![c].pc = "loop"]
    /\ rows' = [rows EXCEPT ![c] = saveRun(CreateRun(NoArgs).run)]
    /\ UNCHANGED shared
    /\ UNCHANGED <<engineVars, forEachVars, storageVars, replaceVars>>

\* lines 75-100, 128-131: the call resumes after an await and runs up to
\* the next one: the execute call of the next step its conditions let run,
\* or the end of the loop
CallLoop(c) ==
    /\ executeCalls[c].pc = "loop"
    /\ LET call == executeCalls[c]
           next == SkipFrom(call.stepIdx, call.workflow, call.run.steps, shared)
       IN /\ shared' = next.defined
          /\ executeCalls' = IF next.stepIdx > Len(call.workflow)
                      THEN [executeCalls EXCEPT ![c].stepIdx = next.stepIdx,
                                         ![c].run.status = FinalStatus(@),
                                         ![c].pc = "finish"]
                      ELSE [executeCalls EXCEPT ![c].stepIdx = next.stepIdx,
                                         ![c].pc = "await"]
    /\ UNCHANGED rows
    /\ UNCHANGED <<engineVars, forEachVars, storageVars, replaceVars>>

\* lines 100-125: the attempt of the step settles; the result is recorded,
\* the checkpoint is written to the row of the run's id, and a failure
\* under onError=stop ends the loop
CallSettle(c) ==
    /\ executeCalls[c].pc = "await"
    /\ \E outcome \in ExecOutcomes :
         LET call == executeCalls[c]
             step == call.workflow[call.stepIdx]
             res == AfterAttempt(step, 0, Undefined, outcome).result
             steps == PutStep(call.run.steps, step.name, res)
         IN /\ rows' = [rows EXCEPT ![c] = updateRun(@, [steps |-> steps])]
            /\ executeCalls' = IF StopsRun(step, res)
                        THEN [executeCalls EXCEPT ![c].run.steps = steps,
                                           ![c].run.status = "failed",
                                           ![c].run.error = StepFailedError(step, res),
                                           ![c].pc = "finish"]
                        ELSE [executeCalls EXCEPT ![c].run.steps = steps,
                                           ![c].stepIdx = @ + 1,
                                           ![c].pc = "loop"]
    /\ UNCHANGED shared
    /\ UNCHANGED <<engineVars, forEachVars, storageVars, replaceVars>>

\* lines 133-152: the final updateRun, and the run is returned
CallFinish(c) ==
    /\ executeCalls[c].pc = "finish"
    /\ rows' = [rows EXCEPT ![c] = updateRun(@, [status |-> executeCalls[c].run.status,
                                                 error |-> executeCalls[c].run.error])]
    /\ executeCalls' = [executeCalls EXCEPT ![c].pc = "returned"]
    /\ UNCHANGED shared
    /\ UNCHANGED <<engineVars, forEachVars, storageVars, replaceVars>>

NextConcurrent ==
    \E c \in CallIds :
        \/ CallExecute(c)
        \/ CallLoop(c)
        \/ CallSettle(c)
        \/ CallFinish(c)

----------------------------------------------------------------------------
(* Specifications *)

\* the engine, a workflow and the variables of the call, with the program
\* standing at the given place
InitEngineGiven(at, workflows, pluginLists, scripts, given) ==
    /\ \E ps \in pluginLists :
         /\ plugins = EngineWith(ps).plugins
         /\ stepExecutors = EngineWith(ps).stepExecutors
    /\ workflow \in workflows
    /\ endpoint \in { Endpoint(script) : script \in scripts }
    /\ ForEachIdle
    /\ StorageIdle
    /\ ReplaceIdle
    /\ ConcurrentIdle
    /\ pc = at
    /\ stepIdx = 0
    /\ hookIdx = 0
    /\ run = [status |-> Undefined, error |-> Undefined, endTime |-> NotEnded,
              steps |-> EmptySteps, variables |-> NoEntries]
    /\ args \in given
    /\ result = NoResult
    /\ retryCount = 0
    /\ lastError = Undefined
    /\ ledger = NoRow
    /\ trace = <<>>
    /\ results = <<>>
    /\ globals = {}
    /\ clock = 0
    /\ inFlight = {}

\* the engine and a workflow without variables
InitEngineAt(at, workflows, pluginLists, scripts) ==
    InitEngineGiven(at, workflows, pluginLists, scripts, {NoArgs})

\* execute() is about to be called
InitEngine(workflows, pluginLists, scripts) ==
    InitEngineAt("start", workflows, pluginLists, scripts)

\* the engine with an endpoint (and executors) free to do anything
InitWith(workflows, pluginLists) == InitEngine(workflows, pluginLists, { <<>> })

EngineConditions == {NoCondition, CondS1Succeeded}

PluginLists == UNION { PluginListsOfLen(n) : n \in 0..MaxPlugins }

\* the engine on workflows of up to MaxSteps steps
Init ==
    InitWith(UNION { WorkflowsOfLen(n, ValidKinds, EngineConditions, 0..MaxRetries) :
                        n \in 0..MaxSteps },
             PluginLists)

Spec == Init /\ [][Next]_vars

\* the step runner on one step with up to MaxRunnerRetries retries
InitRunner ==
    InitWith(WorkflowsOfLen(1, AllKinds, EngineConditions, 0..MaxRunnerRetries),
             PluginLists)

SpecRunner == InitRunner /\ [][Next]_vars

\* a step with a timeout
TimedStep(step, timeout) ==
    [name |-> step.name, type |-> step.type, params |-> step.params,
     condition |-> step.condition, retries |-> step.retries,
     onError |-> step.onError, timeout |-> timeout]

CondHttpSucceeded == <<Ref(<<"steps", "http-step", "success">>)>>
StatusMessage == <<Ref(<<"steps", "http-step", "data", "status">>)>>

\* The workflow [log("start"), wait(10ms), http(GET, retries=2),
\* log("${steps.http-step.data.status}")], and its variants: the http step
\* with a timeout of 5 s or with another onError, the last step with a
\* condition on the http step.
ScenarioHttpSteps ==
    LET plain(e) == StepSpec("http-step", "http", ValidParams, NoCondition, 2, e)
    IN { plain(e) : e \in OnErrorValues }
       \cup { TimedStep(plain(e), 5000) : e \in OnErrorValues }

ScenarioWorkflows ==
    { << StepSpec("start", "log", [message |-> <<Lit("start")>>], NoCondition, 0, "stop"),
         StepSpec("pause", "wait", [duration |-> 10], NoCondition, 0, "stop"),
         http,
         StepSpec("report", "log", [message |-> StatusMessage], c, 0, "stop") >> :
        http \in ScenarioHttpSteps, c \in {NoCondition, CondHttpSucceeded} }

\* the endpoint answers the three requests the http step can make in each
\* of its ways
InitScenario ==
    InitEngine(ScenarioWorkflows, PluginLists, [1..3 -> Responses])

SpecScenario == InitScenario /\ [][Next]_vars

\* the engine with two or more plugins, on two steps
InitHooks ==
    InitWith(WorkflowsOfLen(2, { <<"http", ValidParams>> }, EngineConditions,
                            {MaxRetries}),
             PluginListsOfLen(MaxHookPlugins))

SpecHooks == InitHooks /\ [][Next]_vars

\* in and out of the grammar of conditions, throwing or not
AllConditions ==
    {NoCondition, CondS1Succeeded, CondS1Status200, CondSyntaxError,
     CondReferenceError, CondFunctionCall, CondAssignment}

\* the engine on two http steps with every condition, against an endpoint
\* free to do anything or answering 200 to the first request
InitConditions ==
    InitEngine(WorkflowsOfLen(2, { <<"http", ValidParams>> }, AllConditions, {1}),
               PluginLists, { <<>>, <<Ok200>> })

SpecConditions == InitConditions /\ [][Next]_vars

\* the engine on one step, with one plugin whose hooks throw with a message
\* or without one
InitMessages ==
    InitWith(WorkflowsOfLen(1, ValidKinds, EngineConditions, 0..MaxRetries),
             { <<p>> : p \in {HookPlugin, MuteHookPlugin} })

SpecMessages == InitMessages /\ [][Next]_vars

\* the step runner on one step of every executor: the kinds of the runner's
\* specification and a fan-out over two items
InitResults ==
    InitWith(WorkflowsOfLen(1, AllKinds \cup { <<"foreach", [items |-> <<"item0", "item1">>,
                                                            steps |-> <<"log">>]>> },
                            EngineConditions, 0..MaxRetries),
             PluginLists)

SpecResults == InitResults /\ [][Next]_vars

\* a step of a workflow document that has no type
Untyped(step) == [f \in DOMAIN step \ {"type"} |-> step[f]]

\* the documents given to the loader: workflows of two http steps, with
\* distinct names or with one name twice, and the same with a first step
\* that has no type
WorkflowDocuments ==
    LET parsed == WorkflowsOfLen(2, { <<"http", ValidParams>> }, EngineConditions,
                                 {MaxRetries})
    IN parsed \cup { <<Untyped(w[1]), w[2]>> : w \in parsed }

\* the loader is about to validate a document; the engine then executes the
\* workflow it returns
InitLoader == InitEngineAt("load", WorkflowDocuments, PluginLists, { <<>> })

SpecLoader == InitLoader /\ [][NextLoader]_vars

\* the names and the values of the variables of the calls
VariableNames == {"env", "user"}
ObjectsOf(values) ==
    UNION { [names -> values] : names \in SUBSET VariableNames }

\* execute(workflow, variables) with and without workflow.variables, with
\* names only the workflow has, names only the caller gives, names both
\* have, and a name the caller gives as undefined
GivenArgs ==
    { [workflowVariables |-> w, variables |-> Object(v)] :
        w \in {NoObject} \cup { Object(o) : o \in ObjectsOf({JsStr("workflow")}) },
        v \in ObjectsOf({JsStr("caller"), JsUndefined}) }

InitVariables ==
    InitEngineGiven("start", WorkflowsOfLen(1, ValidKinds, EngineConditions, {1}),
                    PluginLists, { <<>> }, GivenArgs)

SpecVariables == InitVariables /\ [][Next]_vars

\* a fan-out in parallel mode
ParallelParams(maxConcurrency) ==
    [items |-> <<"item0", "item1">>, steps |-> <<"log">>, parallel |-> TRUE,
     maxConcurrency |-> maxConcurrency]

\* steps whose executor settles in any way (http), never settles (hang),
\* and fan-outs with a positive and with a negative maxConcurrency
TerminationKinds ==
    { <<"http", ValidParams>>, <<"hang", ValidParams>>,
      <<"foreach", ParallelParams(2)>>, <<"foreach", ParallelParams(-1)>> }

\* one step, with and without a timeout, on an engine that has the hanging
\* executor and may have hooks
InitTermination ==
    InitWith(LET plain == WorkflowsOfLen(1, TerminationKinds, EngineConditions,
                                         0..MaxRetries)
             IN plain \cup { <<TimedStep(w[1], 5000)>> : w \in plain },
             { <<HangPlugin>>, <<HookPlugin, HangPlugin>> })

\* every call execute() awaits settles when it can: a step the engine can
\* take is eventually taken
SpecTermination == InitTermination /\ [][Next]_vars /\ WF_vars(Next)

\* no run of the engine is under way
EngineIdle ==
    /\ plugins = NewEngine.plugins
    /\ stepExecutors = NewEngine.stepExecutors
    /\ workflow = <<>>
    /\ endpoint = Endpoint(<<>>)
    /\ pc = "idle"
    /\ stepIdx = 0
    /\ hookIdx = 0
    /\ run = [status |-> Undefined, error |-> Undefined, endTime |-> NotEnded,
              steps |-> EmptySteps, variables |-> NoEntries]
    /\ args = NoArgs
    /\ result = NoResult
    /\ retryCount = 0
    /\ lastError = Undefined
    /\ ledger = NoRow
    /\ trace = <<>>
    /\ results = <<>>
    /\ globals = {}
    /\ clock = 0
    /\ inFlight = {}

\* the items array of a given length
ItemsOfLen(n) == [i \in 1..n |-> "item" \o ToString(i - 1)]

\* the sub-steps a nested sequence can have at position k
SubStepsAt(k, types, conditions) ==
    { SubStep(StepName(k), t, c, e) :
        t \in types, c \in conditions, e \in {"stop", "continue"} }

\* nested sequences of one sub-step, a script or a step of a type the
\* fan-out does not implement, and of two scripts, the second one with or
\* without a condition on the first
SubStepLists ==
    { <<a>> : a \in SubStepsAt(1, {"script", "http"}, {NoCondition}) }
    \cup { <<a, b>> : a \in SubStepsAt(1, {"script"}, {NoCondition}),
                      b \in SubStepsAt(2, {"script"}, EngineConditions) }

\* the fan-out over arrays of up to MaxItems items, sequential and parallel
InitForEach ==
    /\ EngineIdle
    /\ StorageIdle
    /\ ReplaceIdle
    /\ ConcurrentIdle
    /\ feParams \in
         { [items |-> ItemsOfLen(n), steps |-> l, parallel |-> par, maxConcurrency |-> m] :
             n \in 0..MaxItems,
             l \in SubStepLists,
             par \in BOOLEAN,
             m \in {0, MaxConcurrency} }
    /\ fePc = "start"
    /\ feI = 0
    /\ feBatches = <<>>
    /\ feInFlight = {}
    /\ feBatchResults = EmptyArray
    /\ feSettled = EmptyArray
    /\ feResults = EmptyArray
    /\ feErrors = <<>>
    /\ feReturn = NoForEachResult
    /\ feHeap = ParentHeap

SpecForEach == InitForEach /\ [][NextForEach]_vars

\* a script sub-step with its code (params.code)
Scripted(step, code) ==
    [name |-> step.name, type |-> step.type, condition |-> step.condition,
     onError |-> step.onError, code |-> code]

\* nested sequences of three scripts: the first two with every onError, the
\* second one with or without a condition on the first; their codes assign
\* and delete a variable of the context they are given
NestedStepLists ==
    { << Scripted(SubStep(StepName(1), "script", NoCondition, e1), codes[1]),
         Scripted(SubStep(StepName(2), "script", c2, e2), codes[2]),
         Scripted(SubStep(StepName(3), "script", NoCondition, "stop"), codes[3]) >> :
        e1 \in OnErrorValues, e2 \in OnErrorValues, c2 \in EngineConditions,
        codes \in { <<"assign", "return", "delete">>, <<"return", "assign", "return">> } }

\* the fan-out over arrays of up to MaxNestedItems items, with nested
\* sequences of three sub-steps
InitNested ==
    /\ EngineIdle
    /\ StorageIdle
    /\ ReplaceIdle
    /\ ConcurrentIdle
    /\ feParams \in
         { [items |-> ItemsOfLen(n), steps |-> l, parallel |-> par, maxConcurrency |-> m] :
             n \in 0..MaxNestedItems,
             l \in NestedStepLists,
             par \in BOOLEAN,
             m \in {0, MaxConcurrency} }
    /\ fePc = "start"
    /\ feI = 0
    /\ feBatches = <<>>
    /\ feInFlight = {}
    /\ feBatchResults = EmptyArray
    /\ feSettled = EmptyArray
    /\ feResults = EmptyArray
    /\ feErrors = <<>>
    /\ feReturn = NoForEachResult
    /\ feHeap = ParentHeap

SpecNested == InitNested /\ [][NextForEach]_vars

\* nested sequences of one sub-step written as a step of a workflow, with
\* params and retries: a log step, http steps with valid and with invalid
\* params, and a step of a type no executor is registered for
SubRunnerStepLists ==
    { <<StepSpec(StepName(1), k[1], k[2], NoCondition, r, e)>> :
        k \in AllKinds \cup { <<"log", [message |-> <<Lit("start")>>]>> },
        r \in {0, MaxRetries},
        e \in {"stop", "continue"} }

\* the fan-out of an engine with its built-in executors over such sub-steps
InitSubRunner ==
    /\ EngineIdle
    /\ StorageIdle
    /\ ReplaceIdle
    /\ ConcurrentIdle
    /\ feParams \in
         { [items |-> ItemsOfLen(n), steps |-> l, parallel |-> par, maxConcurrency |-> m] :
             n \in 0..MaxItems,
             l \in SubRunnerStepLists,
             par \in BOOLEAN,
             m \in {0, MaxConcurrency} }
    /\ fePc = "start"
    /\ feI = 0
    /\ feBatches = <<>>
    /\ feInFlight = {}
    /\ feBatchResults = EmptyArray
    /\ feSettled = EmptyArray
    /\ feResults = EmptyArray
    /\ feErrors = <<>>
    /\ feReturn = NoForEachResult
    /\ feHeap = ParentHeap

SpecSubRunner == InitSubRunner /\ [][NextForEach]_vars

\* the workflows of call c: one or two http steps without retries, named
\* after the call, each with no condition, with a condition that assigns a
\* global name or with one that reads it
CallStepsAt(c, i) ==
    { StepSpec("run" \o ToString(c) \o "-" \o StepName(i), "http", ValidParams,
               condition, 0, e) :
        condition \in {NoCondition, CondAssignment, CondReadsGlobal},
        e \in {"stop", "continue"} }

CallWorkflows(c) ==
    { <<a>> : a \in CallStepsAt(c, 1) }
    \cup { <<a, b>> : a \in CallStepsAt(c, 1), b \in CallStepsAt(c, 2) }

\* execute() is called twice on one engine, each call with its workflow
InitConcurrent ==
    /\ EngineIdle
    /\ ForEachIdle
    /\ StorageIdle
    /\ ReplaceIdle
    /\ executeCalls \in { [c \in CallIds |-> [NoCall EXCEPT !.workflow = w[c], !.pc = "start"]] :
                      w \in { f \in [CallIds -> UNION { CallWorkflows(c) : c \in CallIds }] :
                                 \A c \in CallIds : f[c] \in CallWorkflows(c) } }
    /\ rows = [c \in CallIds |-> NoRow]
    /\ shared = {}

SpecConcurrent == InitConcurrent /\ [][NextConcurrent]_vars

\* the storage on its own
InitStorage ==
    /\ EngineIdle
    /\ ForEachIdle
    /\ StorageIdle
    /\ ReplaceIdle
    /\ ConcurrentIdle

SpecStorage == InitStorage /\ [][NextStorage]_vars

\* the pieces of a text: literal text, references that resolve in some
\* context and references that resolve in none
TextPieces ==
    { Lit("status: "), Lit(" of $ {x}"),
      Ref(<<"variables", "x">>), Ref(<<"variables", "missing">>),
      Ref(<<"steps", "s1", "data", "status">>), Ref(<<"steps", "s1", "success">>),
      Ref(<<"steps", "s9", "success">>), Ref(<<"steps", "s1", "data", "body">>),
      Ref(<<"runId">>), Ref(<<"currentStep">>) }

RECURSIVE TextsOfLen(_)
TextsOfLen(len) ==
    IF len = 0 THEN { <<>> }
    ELSE { Append(t, piece) : t \in TextsOfLen(len - 1), piece \in TextPieces }

\* the StepContext of a step "s2" of a run, with and without variables and
\* an earlier step result
StepContexts ==
    { [variables |-> v, steps |-> st, currentStep |-> "s2", runId |-> "run-1"] :
        v \in { [n \in {} |-> JsUndefined],
                [n \in {"x"} |-> JsNum(7)],
                [n \in {"x"} |-> JsStr("seven")],
                [n \in {"x"} |-> JsBool(FALSE)] },
        st \in { EmptySteps,
                 [n \in {"s1"} |-> ResolvedResult(HttpExecute(Ok200), 0)] } }

\* replaceVariables on texts of up to MaxPieces pieces
InitReplace ==
    /\ EngineIdle
    /\ ForEachIdle
    /\ StorageIdle
    /\ ConcurrentIdle
    /\ rvInput \in { [text |-> t, context |-> c] :
                        t \in UNION { TextsOfLen(n) : n \in 0..MaxPieces },
                        c \in StepContexts }
    /\ rvOutput = NotReturned

SpecReplace == InitReplace /\ [][NextReplace]_vars

----------------------------------------------------------------------------
(* Properties *)

\* the positions of the trace that hold an event of step i with an op of ops
EventsOf(i, ops) == { p \in DOMAIN trace : trace[p].step = i /\ trace[p].op \in ops }

Calls(i, op) == Cardinality(EventsOf(i, {op}))

SkippedSteps == { trace[p].step : p \in { q \in DOMAIN trace : trace[q].op = "skip" } }

RanSteps == { results[k].step : k \in DOMAIN results }

\* the catch block of execute() was entered
Threw == \E p \in DOMAIN trace : trace[p].op = "updateCatch"

\* the k-th StepResult is a failure of a step declared with this onError
FailedWith(k, onError) ==
    ~results[k].result.success /\ workflow[results[k].step].onError = onError

NamesUpTo(i) == { workflow[j].name : j \in 1..i }

\* C1: the Run execute() returns has status completed or failed, never
\* running or paused
C1_ReturnedRunIsTerminal ==
    pc = "returned" => run.status \in {"completed", "failed"}

C1_Witness ==
    pc = "returned" /\ run.status = "completed" /\ results # <<>>

\* C2: execute() never rejects: once a hook or a ledger call has thrown, it
\* still resolves with a Run whose status is failed and whose error is the
\* exception's message
C2_ExecuteNeverRejects ==
    Threw => /\ pc = "returned"
             /\ run.status = "failed"
             /\ run.error \in {HookError, LedgerError}

\* C3: a step with retries = N whose executor fails on every attempt, by
\* throwing or by returning success=false, has its execute called N+1 times
\* and ends with success=false and retries = N
C3_FailingStepAttemptedNPlusOneTimes ==
    \A k \in DOMAIN results :
        LET i == results[k].step
            r == results[k].result
        IN (~r.success /\ Calls(i, "execute") >= 1)
           => /\ Calls(i, "execute") = workflow[i].retries + 1
              /\ r.retries = workflow[i].retries

\* C4: at every attempt, a failure returned as success=false is handled as
\* the same failure thrown: both are followed by another attempt or both end
\* the step, and they end it with the same success, error and retries
C4_ReturnedFailureHandledAsThrown ==
    pc = "attempt" =>
        LET thrown == AfterAttempt(CurrentStep, retryCount, lastError,
                                   [kind |-> "throw", error |-> ExecErrorReturned,
                                    data |-> NoData])
            returned == AfterAttempt(CurrentStep, retryCount, lastError,
                                     [kind |-> "fail", error |-> ExecErrorReturned,
                                      data |-> NoData])
        IN /\ thrown.again = returned.again
           /\ ~thrown.again => thrown.result = returned.result

\* C5: a step whose executor's validate returns false fails at once: execute
\* is never called, validate is called once, nothing is slept, and the result
\* is a failure with the validation error and retries = 0
C5_InvalidStepFailsImmediately ==
    \A k \in DOMAIN results :
        LET i == results[k].step
            r == results[k].result
        IN (workflow[i].type = "http" /\ workflow[i].params.url = "")
           => /\ Calls(i, "execute") = 0
              /\ Calls(i, "validate") = 1
              /\ Calls(i, "sleep") = 0
              /\ ~r.success
              /\ r.retries = 0
              /\ r.error = "Invalid parameters for step type 'http'"

RECURSIVE Doubled(_)
Doubled(k) == IF k = 1 THEN 1000 ELSE 2 * Doubled(k - 1)

\* C6: every sleep of the step runner follows a failed attempt k that is
\* not the last one (k <= retries), lasts min(1000 * 2^(k-1), 30000) ms and
\* is followed by attempt k+1; nothing is slept after attempt retries+1
C6_BackoffBetweenAttempts ==
    \A p \in DOMAIN trace :
        trace[p].op = "sleep" =>
            /\ p > 1
            /\ trace[p - 1].op \in {"validate", "execute"}
            /\ trace[p - 1].step = trace[p].step
            /\ trace[p - 1].arg <= workflow[trace[p].step].retries
            /\ trace[p].arg = (IF Doubled(trace[p - 1].arg) > 30000
                               THEN 30000 ELSE Doubled(trace[p - 1].arg))
            /\ IF p = Len(trace)
               THEN pc = "attempt" /\ retryCount = trace[p - 1].arg
               ELSE /\ trace[p + 1].op \in {"validate", "execute"}
                    /\ trace[p + 1].step = trace[p].step
                    /\ trace[p + 1].arg = trace[p - 1].arg + 1

C6_Witness ==
    \E p \in DOMAIN trace :
        /\ trace[p].op = "sleep"
        /\ trace[p].arg = 30000
        /\ trace[p - 1].arg = 6
        /\ pc = "returned"

\* the condition of a step is absent, or it holds of the results recorded
\* so far
ConditionMet(step) ==
    \/ step.condition = NoCondition
    \/ /\ step.condition = CondS1Succeeded
       /\ "s1" \in DOMAIN run.steps
       /\ run.steps["s1"].success

\* C7: a step whose condition is present and false is skipped entirely: it
\* is never entered, no hook, validate, execute, sleep or checkpoint happens
\* for it, no result of it is recorded (an entry under its name is that of
\* another step of the same name), and the loop is at the next step; a step
\* that is entered has a condition that is absent or true
C7_SkippedStepLeavesNothing ==
    /\ \A p \in DOMAIN trace :
          trace[p].op = "skip" =>
              LET i == trace[p].step
              IN /\ workflow[i].condition # NoCondition
                 /\ \A q \in DOMAIN trace : q # p => trace[q].step # i
                 /\ i \notin RanSteps
                 /\ workflow[i].name \in DOMAIN run.steps
                      => \E j \in RanSteps : workflow[j].name = workflow[i].name
                 /\ p = Len(trace) => stepIdx = i + 1
    /\ pc \in {"beforeStep", "executeStep", "attempt", "backoff"}
          => ConditionMet(CurrentStep)

C7_Witness ==
    /\ pc = "returned"
    /\ 1 \in SkippedSteps
    /\ 2 \in RanSteps
    /\ DOMAIN run.steps = {workflow[2].name}

\* C8: once a step with onError=stop has ended with a failed result, no
\* step declared after it is skipped, entered or executed, and Run.steps,
\* returned or persisted, holds only names of steps up to it
C8_NothingRunsAfterStop ==
    \A k \in DOMAIN results :
        FailedWith(k, "stop") =>
            LET i == results[k].step
            IN /\ k = Len(results)
               /\ stepIdx = i
               /\ \A q \in DOMAIN trace : trace[q].step <= i
               /\ DOMAIN run.steps \subseteq NamesUpTo(i)
               /\ DOMAIN ledger.steps \subseteq NamesUpTo(i)

C8_Witness ==
    /\ pc = "returned"
    /\ Len(workflow) = 2
    /\ workflow[2].condition = NoCondition
    /\ results # <<>>
    /\ results[1].step = 1
    /\ FailedWith(1, "stop")

\* the run error line 117 builds for the k-th result
StopMessage(k) ==
    "Step '" \o workflow[results[k].step].name \o "' failed: "
        \o results[k].result.error

RunFailedWith(message) ==
    /\ run.status = "failed"
    /\ run.error = message
    /\ ledger.status = "failed"
    /\ ledger.error = message

\* C9 as stated: when a step with onError=stop ends with a failed result,
\* the returned Run has status failed and error "Step '<name>' failed:
\* <error>", and the ledger holds the same
C9_StopFailureIsTheRunError ==
    \A k \in DOMAIN results :
        (pc = "returned" /\ FailedWith(k, "stop")) => RunFailedWith(StopMessage(k))

\* C9 amended: the same, provided no hook and no ledger call throws after
\* the step has ended
C9_StopFailureIsTheRunErrorUnlessThrown ==
    \A k \in DOMAIN results :
        (pc = "returned" /\ FailedWith(k, "stop") /\ ~Threw)
            => RunFailedWith(StopMessage(k))

C9_Witness ==
    /\ pc = "returned"
    /\ ~Threw
    /\ results # <<>>
    /\ FailedWith(Len(results), "stop")
    /\ \E p \in DOMAIN trace : trace[p].op = "afterWorkflow"

UniqueNames ==
    \A i, j \in DOMAIN workflow : workflow[i].name = workflow[j].name => i = j

\* C10 as stated: when a step with onError=continue ends with a failed
\* result (in a workflow of distinct step names), every step declared after
\* it whose condition is absent has run and is in Run.steps when execute()
\* is over
C10_LaterStepsRunAfterContinue ==
    \A k \in DOMAIN results :
        (pc \in {"returned", "rejected"} /\ UniqueNames /\ FailedWith(k, "continue")) =>
            \A j \in (results[k].step + 1)..Len(workflow) :
                workflow[j].condition = NoCondition
                    => j \in RanSteps /\ workflow[j].name \in DOMAIN run.steps

\* C10 amended: when a step with onError=continue ends with a failed result
\* and afterwards no hook or ledger call throws and no step fails with
\* onError=stop, every step declared after it is skipped or has run and is
\* in Run.steps, none without a condition is skipped, and the run is
\* completed
C10_LaterStepsRunUnlessStoppedOrThrown ==
    \A k \in DOMAIN results :
        ( /\ pc = "returned"
          /\ FailedWith(k, "continue")
          /\ ~Threw
          /\ \A m \in DOMAIN results : ~FailedWith(m, "stop") )
        => /\ run.status = "completed"
           /\ \A j \in (results[k].step + 1)..Len(workflow) :
                 /\ j \in SkippedSteps
                      \/ (j \in RanSteps /\ workflow[j].name \in DOMAIN run.steps)
                 /\ workflow[j].condition = NoCondition => j \in RanSteps

C10_Witness ==
    /\ pc = "returned"
    /\ ~Threw
    /\ Len(results) = 2
    /\ FailedWith(1, "continue")
    /\ results[2].step = 2
    /\ run.status = "completed"

\* C11: a step whose type has no executor in the registry is never
\* attempted (no validate, execute or sleep happens for it) and its result
\* is success=false, error "Unknown step type: <type>", retries 0, whatever
\* its retries setting; when its onError is stop, it is the last step that
\* runs: no later step is skipped, entered or executed
C11_UnknownTypeFailsWithoutAttempt ==
    /\ pc \in {"attempt", "backoff"} => CurrentStep.type \in DOMAIN stepExecutors
    /\ \A k \in DOMAIN results :
          LET i == results[k].step
              r == results[k].result
          IN workflow[i].type \notin DOMAIN stepExecutors =>
                /\ ~r.success
                /\ r.error = "Unknown step type: " \o workflow[i].type
                /\ r.retries = 0
                /\ Calls(i, "validate") = 0
                /\ Calls(i, "execute") = 0
                /\ Calls(i, "sleep") = 0
                /\ workflow[i].onError = "stop" =>
                      /\ k = Len(results)
                      /\ \A q \in DOMAIN trace : trace[q].step <= i

C11_Witness ==
    /\ pc = "returned"
    /\ Len(workflow) = 2
    /\ workflow[1].type \notin DOMAIN stepExecutors
    /\ workflow[1].retries = 1
    /\ workflow[1].onError = "stop"
    /\ workflow[2].condition = NoCondition
    /\ Len(results) = 1
    /\ run.steps[workflow[1].name].error = "Unknown step type: custom"

HookOps == {"beforeWorkflow", "beforeStep", "afterStep", "afterWorkflow"}

AttemptOps == {"validate", "execute", "sleep"}

\* the plugins that carry hooks, by their place in the registration order
HookPlugins == { j \in DOMAIN plugins : plugins[j].hooks }

\* the plugins whose hook of this kind was called for step i (0: the workflow)
Fired(op, i) == { trace[p].arg : p \in EventsOf(i, {op}) }

\* the place of a hook call or an attempt in the global sequence: the step
\* it belongs to, and within the step beforeStep, execution, afterStep
Major(e) ==
    IF e.op = "beforeWorkflow" THEN 0
    ELSE IF e.op = "afterWorkflow" THEN Len(workflow) + 1
    ELSE e.step

Minor(e) ==
    IF e.op = "beforeStep" THEN 1
    ELSE IF e.op \in AttemptOps THEN 2
    ELSE IF e.op = "afterStep" THEN 3
    ELSE 0

\* C12: the hook calls and step executions of a run form one sequence:
\* beforeWorkflow hooks, then for each executed step its beforeStep hooks,
\* its execution and its afterStep hooks, then the afterWorkflow hooks; no
\* event of a later step comes before one of an earlier step. At each hook
\* point the hooks are called in plugin-registration order, each at most
\* once, and when the run has passed a hook point every plugin's hook has
\* been called there.
C12_HooksFormOneSequence ==
    /\ \A p, q \in DOMAIN trace :
          (p < q /\ trace[p].op \in HookOps \cup AttemptOps
                 /\ trace[q].op \in HookOps \cup AttemptOps)
          => \/ Major(trace[p]) < Major(trace[q])
             \/ /\ Major(trace[p]) = Major(trace[q])
                /\ Minor(trace[p]) <= Minor(trace[q])
    /\ \A p, q \in DOMAIN trace :
          (p < q /\ trace[p].op \in HookOps /\ trace[p].op = trace[q].op
                 /\ trace[p].step = trace[q].step)
          => trace[p].arg < trace[q].arg
    /\ (\E p \in DOMAIN trace : trace[p].op \in {"skip", "enter", "updateFinal"})
          => Fired("beforeWorkflow", 0) = HookPlugins
    /\ \A i \in DOMAIN workflow :
          /\ (i \in RanSteps \/ EventsOf(i, AttemptOps \cup {"afterStep"}) # {})
                => /\ Fired("beforeStep", i) = HookPlugins
                   /\ EventsOf(i, {"enter"}) # {}
          /\ EventsOf(i, {"updateSteps"}) # {}
                => Fired("afterStep", i) = HookPlugins
          /\ Fired("beforeStep", i) # {} => EventsOf(i, {"enter"}) # {}
          /\ Fired("afterStep", i) # {} => i \in RanSteps
    /\ Fired("afterWorkflow", 0) # {}
          => \E p \in DOMAIN trace : trace[p].op = "updateFinal"
    /\ (pc = "returned" /\ ~Threw)
          => /\ Fired("beforeWorkflow", 0) = HookPlugins
             /\ Fired("afterWorkflow", 0) = HookPlugins
             /\ \A i \in RanSteps : Fired("afterStep", i) = HookPlugins

C12_Witness ==
    /\ pc = "returned"
    /\ ~Threw
    /\ HookPlugins = {1, 2}
    /\ Len(results) = 2
    /\ Fired("afterStep", 2) = {1, 2}

\* the names under which the steps that ran so far were declared
RanNames == { workflow[i].name : i \in RanSteps }

\* the result of the last step that ran under a name
LastResultOf(name) ==
    LET ks == { k \in DOMAIN results : workflow[results[k].step].name = name }
        last == CHOOSE k \in ks : \A m \in ks : m <= k
    IN results[last].result

\* the steps map that holds the results of all steps that ran so far
StepsSoFar == [n \in RanNames |-> LastResultOf(n)]

\* C13: the result of every executed step is recorded under the step's name
\* as soon as the step runner returns it, and whenever the engine is at the
\* next step (evaluating its condition, calling its beforeStep hooks or
\* running it) or past the loop, updateRun has been called once per executed
\* step and the ledger's steps map holds exactly the results of all steps
\* executed so far, one entry per step when the names are distinct
C13_CheckpointAfterEveryStep ==
    /\ run.steps = StepsSoFar
    /\ UniqueNames => Cardinality(DOMAIN run.steps) = Len(results)
    /\ pc \in {"loop", "beforeStep", "executeStep", "attempt", "backoff", "finish",
               "afterWorkflow"}
          => /\ ledger.steps = StepsSoFar
             /\ Cardinality({ p \in DOMAIN trace : trace[p].op = "updateSteps" })
                   = Len(results)
    /\ \A p \in DOMAIN trace :
          trace[p].op = "updateSteps" =>
              /\ trace[p].step \in RanSteps
              /\ \A q \in DOMAIN trace : trace[q].step > trace[p].step => q > p

C13_Witness ==
    /\ pc = "attempt"
    /\ stepIdx = 2
    /\ UniqueNames
    /\ Len(results) = 1
    /\ DOMAIN ledger.steps = {workflow[1].name}
    /\ ledger.steps[workflow[1].name] = results[1].result

\* C14: the run is created with status running and saveRun is the first
\* call execute() makes: whenever a beforeWorkflow hook is about to be
\* called, a condition evaluated or a step run, the ledger holds the run's
\* row, saved once, and both the run and the row are running
C14_SavedBeforeAnythingRuns ==
    /\ pc = "saveRun" => run.status = "running" /\ trace = <<>>
    /\ trace # <<>> =>
          /\ trace[1].op = "saveRun"
          /\ \A p \in DOMAIN trace : trace[p].op = "saveRun" => p = 1
    /\ pc \in {"beforeWorkflow", "loop", "beforeStep", "executeStep", "attempt",
               "backoff", "afterStep", "checkpoint"}
          => /\ ledger.saved
             /\ ledger.status = "running"
             /\ run.status = "running"
    /\ (\E p \in DOMAIN trace :
            trace[p].op \in HookOps \cup AttemptOps \cup {"skip", "enter"})
          => ledger.saved

C14_Witness ==
    /\ pc = "beforeWorkflow"
    /\ Len(trace) = 1
    /\ ledger.saved
    /\ ledger.status = "running"
    /\ ledger.steps = EmptySteps

\* the positions of the trace that hold an event of one of these ops
OpsAt(ops) == { p \in DOMAIN trace : trace[p].op \in ops }

\* C15: steps are started in declared order and each at most once: the
\* steps entered, and the steps whose results are recorded, come with
\* strictly increasing positions in the workflow's step list, the attempts
\* made never go back to an earlier step, and Run.steps holds exactly the
\* names of the steps that ran
C15_StepsRunInDeclaredOrder ==
    /\ \A k, m \in DOMAIN results : k < m => results[k].step < results[m].step
    /\ \A p, q \in OpsAt({"enter", "skip"}) : p < q => trace[p].step < trace[q].step
    /\ \A p, q \in OpsAt(AttemptOps) : p < q => trace[p].step <= trace[q].step
    /\ \A p \in OpsAt(AttemptOps) :
          \E q \in OpsAt({"enter"}) : q < p /\ trace[q].step = trace[p].step
    /\ DOMAIN run.steps = RanNames
    /\ pc \in {"beforeStep", "executeStep", "attempt", "backoff"}
          => stepIdx \notin RanSteps

C15_Witness ==
    /\ pc = "returned"
    /\ UniqueNames
    /\ Len(results) = 2
    /\ results[1].step = 1
    /\ results[2].step = 2
    /\ DOMAIN run.steps = {workflow[1].name, workflow[2].name}

\* the hook call at position p of the trace threw: the catch block follows
\* it at once
HookThrewAt(p) ==
    /\ trace[p].op \in {"beforeWorkflow", "beforeStep", "afterStep"}
    /\ \/ p = Len(trace) /\ pc = "catchUpdate"
       \/ p < Len(trace) /\ trace[p + 1].op = "updateCatch"

\* C16: when a beforeWorkflow, beforeStep or afterStep hook throws, nothing
\* of the workflow happens afterwards (no other hook, no condition, no
\* attempt, no checkpoint, no result: only the catch block's updateRun), and
\* the Run execute() returns has status failed and the hook's message as
\* its error
C16_ThrowingHookAbortsRun ==
    \A p \in DOMAIN trace :
        HookThrewAt(p) =>
            /\ Len(trace) <= p + 1
            /\ pc \in {"catchUpdate", "returned", "rejected"}
            /\ \A k \in DOMAIN results : results[k].step <= trace[p].step
            /\ trace[p].op = "beforeStep" => trace[p].step \notin RanSteps
            /\ run.status = "failed"
            /\ run.error = "hook failed"
            /\ pc = "returned" => ledger.status = "failed" /\ ledger.error = "hook failed"

C16_Witness ==
    /\ pc = "returned"
    /\ Len(workflow) = 2
    /\ RanSteps = {1}
    /\ \E p \in DOMAIN trace :
          HookThrewAt(p) /\ trace[p].op = "beforeStep" /\ trace[p].step = 2
    /\ run.error = HookError

\* the workflow is the scenario's own: the http step has no timeout and the
\* default onError, the last step has no condition
ScenarioAsStated ==
    /\ ~HasTimeout(workflow[3])
    /\ workflow[3].onError = "stop"
    /\ workflow[4].condition = NoCondition

\* the first request the endpoint answers with 200, 0 if there is none
FirstOk ==
    LET oks == { k \in DOMAIN endpoint.script : endpoint.script[k].status = 200 }
    IN IF oks = {} THEN 0 ELSE CHOOSE k \in oks : \A m \in oks : k <= m

\* C17: in the scenario workflow, when the endpoint fails on its first one
\* or two requests and then answers 200, and no hook or ledger call throws,
\* the http step is attempted until the request that succeeds, the returned
\* run is completed, and the message of the last log step is the status
\* code of the http step's result
C17_FlakyEndpointScenarioCompletes ==
    (pc = "returned" /\ ScenarioAsStated /\ ~Threw /\ FirstOk \in {2, 3})
    => /\ Calls(3, "execute") = FirstOk
       /\ run.status = "completed"
       /\ "report" \in DOMAIN run.steps
       /\ run.steps["report"].data.message = JsStr("200")

\* the scenario with an endpoint that answers 500, then 200: the http step
\* is attempted once and the run has failed
C17_Witness ==
    /\ pc = "returned"
    /\ ScenarioAsStated
    /\ ~Threw
    /\ endpoint.script[1] = Error500
    /\ FirstOk = 2
    /\ Calls(3, "execute") = 1
    /\ run.status = "failed"
    /\ run.error = "Step 'http-step' failed: HTTP 500: Internal Server Error"
    /\ "report" \notin DOMAIN run.steps

\* the iterations that have been started
Started == feInFlight \cup DOMAIN feSettled

\* C18: in sequential mode the iterations run one at a time in input
\* order: at most one is in flight, it is the one of the next item, all
\* earlier ones have settled and no later one has started; results[i] is
\* the value the iteration over items[i] was fulfilled with, for every
\* fulfilled iteration i, and that array is what the step returns
C18_SequentialResultsAligned ==
    ~feParams.parallel =>
        /\ Cardinality(feInFlight) <= 1
        /\ \A i \in feInFlight : i = feI /\ DOMAIN feSettled = 0..(i - 1)
        /\ feInFlight = {} => DOMAIN feSettled = 0..(feI - 1)
        /\ \A i \in DOMAIN feSettled :
              feSettled[i].status = "fulfilled" => i \in DOMAIN feResults
        /\ \A i \in DOMAIN feResults :
              /\ i \in DOMAIN feSettled
              /\ feSettled[i].status = "fulfilled"
              /\ feResults[i] = feSettled[i].value
              /\ feResults[i].index = i
              /\ feResults[i].item = feParams.items[i + 1]
        /\ fePc = "done" =>
              /\ feReturn.data.results = feResults
              /\ DOMAIN feSettled = 0..(Len(feParams.items) - 1)

C18_Witness ==
    /\ ~feParams.parallel
    /\ fePc = "done"
    /\ Len(feParams.items) = 3
    /\ DOMAIN feReturn.data.results = {1, 2}
    /\ feReturn.data.results[2].item = "item2"
    /\ Len(feReturn.data.errors) = 1

\* the batch size the parameters ask for
BatchSize == IF feParams.maxConcurrency = 0 THEN 5 ELSE feParams.maxConcurrency

\* the batch the iteration of an index belongs to, counted from 0
BatchOf(index) == index \div BatchSize

\* C19: in parallel mode the batches are the consecutive runs of
\* maxConcurrency items (5 when none is given), the last one shorter; never
\* more than that many iterations are in flight; the iterations in flight or
\* settled and not yet collected are those of one batch; and an iteration is
\* started only when every iteration of every earlier batch has settled
C19_ParallelBatchesBounded ==
    feParams.parallel =>
        /\ Cardinality(feInFlight) <= BatchSize
        /\ \A i \in Started :
              \A j \in 0..(Len(feParams.items) - 1) :
                  BatchOf(j) < BatchOf(i) => j \in DOMAIN feSettled
        /\ \A i \in feInFlight : \A j \in Started : BatchOf(j) <= BatchOf(i)
        /\ fePc # "start" =>
              /\ \A b \in DOMAIN feBatches :
                    /\ Len(feBatches[b]) >= 1
                    /\ Len(feBatches[b]) <= BatchSize
                    /\ b < Len(feBatches) => Len(feBatches[b]) = BatchSize
                    /\ \A k \in DOMAIN feBatches[b] :
                          /\ feBatches[b][k].index = (b - 1) * BatchSize + k - 1
                          /\ feBatches[b][k].item
                                = feParams.items[(b - 1) * BatchSize + k]
              /\ Len(feParams.items)
                    = Cardinality({ <<b, k>> \in (DOMAIN feBatches) \X (1..BatchSize) :
                                       k \in DOMAIN feBatches[b] })
        /\ fePc = "await" =>
              feInFlight \cup DOMAIN feBatchResults
                  = { i \in 0..(Len(feParams.items) - 1) : BatchOf(i) = feI - 1 }

C19_Witness ==
    /\ feParams.parallel
    /\ feParams.maxConcurrency = 0
    /\ Len(feParams.items) = 6
    /\ fePc = "await"
    /\ feInFlight = {5}
    /\ DOMAIN feSettled = 0..4
    /\ Len(feErrors) = 2

\* the indices of the iterations that were rejected
RejectedIterations == { i \in DOMAIN feSettled : feSettled[i].status = "rejected" }

\* every rejected iteration is in errors[] with its index and its error
RejectedAreListed ==
    \A i \in RejectedIterations :
        \E k \in DOMAIN feReturn.data.errors :
            /\ feReturn.data.errors[k].index = i
            /\ feReturn.data.errors[k].error = feSettled[i].reason

SubStepRan(settled, k) == feParams.steps[k].name \in DOMAIN settled.steps

\* the sub-steps of an iteration that failed under onError=stop
StoppedAt(settled) ==
    { k \in DOMAIN feParams.steps :
        /\ SubStepRan(settled, k)
        /\ ~settled.steps[feParams.steps[k].name].success
        /\ feParams.steps[k].onError = "stop" }

\* the condition of sub-step k does not hold of what the iteration recorded
SubStepConditionFails(settled, k) ==
    /\ feParams.steps[k].condition = CondS1Succeeded
    /\ ~("s1" \in DOMAIN settled.steps /\ settled.steps["s1"].success)

ErrorIndices == { feErrors[e].index : e \in DOMAIN feErrors }

\* C21: an iteration one of whose sub-steps failed under onError=stop is
\* rejected and none of its later sub-steps has run; an iteration whose
\* sub-steps failed under onError=continue only (or not at all) is
\* fulfilled, and every sub-step of it ran unless its condition did not
\* hold. When the fan-out returns, every iteration has settled, whatever
\* the others did; the rejected ones are in errors[] with their index and
\* not in results[], the fulfilled ones are in results[] with the results
\* of their sub-steps and not in errors[]
C21_StopAbortsOnlyItsIteration ==
    /\ \A i \in DOMAIN feSettled :
         LET settled == feSettled[i]
         IN IF StoppedAt(settled) # {}
            THEN /\ settled.status = "rejected"
                 /\ \A j \in StoppedAt(settled), k \in DOMAIN feParams.steps :
                      k > j => ~SubStepRan(settled, k)
            ELSE /\ settled.status = "fulfilled"
                 /\ \A k \in DOMAIN feParams.steps :
                      SubStepRan(settled, k) \/ SubStepConditionFails(settled, k)
    /\ fePc = "done" =>
         /\ DOMAIN feSettled = 0..(Len(feParams.items) - 1)
         /\ \A i \in DOMAIN feSettled :
              IF StoppedAt(feSettled[i]) # {}
              THEN /\ i \in ErrorIndices
                   /\ i \notin DOMAIN feReturn.data.results
              ELSE /\ i \notin ErrorIndices
                   /\ i \in DOMAIN feReturn.data.results
                   /\ feReturn.data.results[i].steps = feSettled[i].steps
         /\ feReturn.data.errors = feErrors

\* three iterations of [s1 (continue), s2 (stop), s3]: the first has s1
\* failing and goes on to s2 and s3, the second is aborted by s2 before s3,
\* the third runs all three
C21_Witness ==
    /\ fePc = "done"
    /\ Len(feParams.items) = 3
    /\ feParams.steps[1].onError = "continue"
    /\ feParams.steps[2].onError = "stop"
    /\ feParams.steps[2].condition = NoCondition
    /\ DOMAIN feReturn.data.results = {0, 2}
    /\ ~feReturn.data.results[0].steps["s1"].success
    /\ DOMAIN feReturn.data.results[0].steps = {"s1", "s2", "s3"}
    /\ feReturn.data.results[2].steps["s3"].success
    /\ ErrorIndices = {1}
    /\ DOMAIN feSettled[1].steps = {"s1", "s2"}
    /\ feReturn.success

\* the objects of the context of iteration i
VariablesOf(i) == feHeap["variables#" \o ToString(i)]
StepsOf(i) == feHeap["steps#" \o ToString(i)]

\* C22: the variables and the steps of the parent context stay as they were
\* when the fan-out started; every iteration that has started has objects
\* of its own; its steps are empty until it runs and hold the results of
\* its own sub-steps afterwards, whatever other iterations do later; its
\* variables are the parent's with item and index added, and they differ
\* from that only by what its own scripts assigned or deleted
C22_IterationContextIsolated ==
    /\ feHeap["variables"] = OuterVariables
    /\ feHeap["steps"] = OuterSteps
    /\ DOMAIN feHeap =
         {"variables", "steps"}
         \cup { "variables#" \o ToString(i) : i \in Started }
         \cup { "steps#" \o ToString(i) : i \in Started }
    /\ \A i \in Started :
         /\ {"item", "index"} \subseteq DOMAIN VariablesOf(i)
         /\ VariablesOf(i)["item"] = JsStr(feParams.items[i + 1])
         /\ VariablesOf(i)["index"] = JsNum(i)
         /\ \A n \in (DOMAIN VariablesOf(i)) \ {"item", "index"} :
              /\ n \in DOMAIN OuterVariables
              /\ VariablesOf(i)[n] \in {OuterVariables[n], JsNum(i)}
         /\ i \in feInFlight =>
              /\ DOMAIN VariablesOf(i) = (DOMAIN OuterVariables) \cup {"item", "index"}
              /\ \A n \in DOMAIN OuterVariables : VariablesOf(i)[n] = OuterVariables[n]
              /\ StepsOf(i) = EmptySteps
         /\ i \in DOMAIN feSettled => StepsOf(i) = feSettled[i].steps

\* a parallel fan-out over three items has returned: the first iteration
\* assigned and then deleted the variable of its context, the second was
\* aborted after it assigned it, the third has not assigned it; the parent
\* still has its own value, and its own result under the name of the first
\* sub-step, which failed in the first iteration
C22_Witness ==
    /\ fePc = "done"
    /\ feParams.parallel
    /\ Len(feParams.items) = 3
    /\ "shared" \notin DOMAIN VariablesOf(0)
    /\ feSettled[1].status = "rejected"
    /\ "shared" \in DOMAIN VariablesOf(1)
    /\ VariablesOf(1)["shared"] = JsNum(1)
    /\ "shared" \in DOMAIN VariablesOf(2)
    /\ VariablesOf(2)["shared"] = JsNum(100)
    /\ "s1" \in DOMAIN StepsOf(2)
    /\ ~StepsOf(2)["s1"].success
    /\ feHeap["variables"]["shared"] = JsNum(100)
    /\ feHeap["steps"]["s1"].success

\* C23: when getRun follows saveRun and any updateRun calls, the Run it
\* returns has the steps and the variables of the last call that supplied
\* them, saveRun included
C23_LedgerRoundTrip ==
    (dbFetched.called /\ dbFetched.result.found) =>
        /\ dbFetched.result.run.steps = dbSupplied.steps
        /\ dbFetched.result.run.variables = dbSupplied.variables

\* getRun after a checkpoint of one step: the step is there with its
\* success, but its timestamp, a Date in the checkpoint, is a string
C23_Witness ==
    /\ dbFetched.called
    /\ dbFetched.result.found
    /\ dbCalls = 1
    /\ DOMAIN dbSupplied.steps = {"s1"}
    /\ dbSupplied.steps["s1"].timestamp = JsDate(1)
    /\ DOMAIN dbFetched.result.run.steps = {"s1"}
    /\ dbFetched.result.run.steps["s1"].success = JsBool(TRUE)
    /\ dbFetched.result.run.steps["s1"].timestamp = JsStr("2026-01-01T00:00:01.000Z")
    /\ dbFetched.result.run.variables = dbSupplied.variables

\* the loop of execute() has gone past step i
LoopPassed(i) == stepIdx > i

\* C24: a step whose condition throws when it is evaluated (a syntax error,
\* a reference to an undefined name) is skipped: it is never entered, no
\* hook, validate or execute call is made for it, it has no result, and one
\* skip is logged once the loop is past it; the run is not failed by it: a
\* run that returns without a failed step under onError=stop and without a
\* ledger or hook exception is completed
C24_ThrowingConditionSkipsStep ==
    /\ \A i \in DOMAIN workflow :
         workflow[i].condition \in {CondSyntaxError, CondReferenceError} =>
            /\ i \notin RanSteps
            /\ EventsOf(i, {"enter", "beforeStep", "validate", "execute",
                            "afterStep", "updateSteps"}) = {}
            /\ LoopPassed(i) => Calls(i, "skip") = 1
    /\ (/\ pc = "returned"
        /\ ~Threw
        /\ \A k \in DOMAIN results : ~FailedWith(k, "stop"))
       => run.status = "completed"

\* the first step ran, the second one has a condition that is no
\* expression: it was skipped and the run is completed
C24_Witness ==
    /\ pc = "returned"
    /\ Len(workflow) = 2
    /\ workflow[1].condition = NoCondition
    /\ workflow[2].condition = CondSyntaxError
    /\ RanSteps = {1}
    /\ SkippedSteps = {2}
    /\ run.status = "completed"
    /\ ledger.status = "completed"

\* C25: a condition outside the grammar (a function call, an assignment)
\* evaluates to false and is not run: its step is never entered and has no
\* result, and nothing is ever defined on the global object
C25_OutOfGrammarConditionRejected ==
    /\ \A i \in DOMAIN workflow :
         workflow[i].condition \in {CondFunctionCall, CondAssignment} =>
            /\ i \notin RanSteps
            /\ EventsOf(i, {"enter"}) = {}
    /\ globals = {}

\* the condition of the first step is an assignment: it was run, it
\* defined a global, and the step it gates was entered and has a result
C25_Witness ==
    /\ pc = "returned"
    /\ Len(workflow) = 2
    /\ workflow[1].condition = CondAssignment
    /\ workflow[2].condition = CondFunctionCall
    /\ globals = {"evaluated"}
    /\ RanSteps = {1, 2}
    /\ SkippedSteps = {}

\* the value a path has in the namespace {variables, steps} of a context
NamespaceValue(context, path) ==
    IF Len(path) = 2 /\ path[1] = "variables" /\ path[2] \in DOMAIN context.variables
    THEN context.variables[path[2]]
    ELSE IF Len(path) >= 3 /\ path[1] = "steps" /\ path[2] \in DOMAIN context.steps
    THEN IF Len(path) = 3 THEN ResultField(context.steps[path[2]], path[3])
         ELSE IF Len(path) = 4 /\ path[3] = "data"
                 /\ path[4] \in DOMAIN context.steps[path[2]].data
         THEN context.steps[path[2]].data[path[4]]
         ELSE JsUndefined
    ELSE JsUndefined

\* the text with every reference that has a value in the namespace
\* replaced by the value as a string, and the others kept as they are
RECURSIVE Interpolated(_, _)
Interpolated(text, context) ==
    IF text = <<>> THEN ""
    ELSE LET piece == Head(text)
             value == NamespaceValue(context, piece.path)
             out == IF piece.kind = "lit" THEN piece.text
                    ELSE IF value.type = "boolean"
                    THEN (IF value.bool THEN "true" ELSE "false")
                    ELSE IF value.type = "number" THEN ToString(value.num)
                    ELSE IF value.type = "string" THEN value.str
                    ELSE "${" \o PathText(piece.path) \o "}"
         IN out \o Interpolated(Tail(text), context)

\* C26: replaceVariables returns the text in which every ${path} whose path
\* resolves in the namespace {variables, steps} is replaced by the value as
\* a string, every other ${path} is left as it is, and the text outside
\* the references is unchanged
C26_ReplaceVariablesInterpolates ==
    rvOutput.returned => rvOutput.text = Interpolated(rvInput.text, rvInput.context)

\* the text "status: ${runId}": runId is no key of {variables, steps}, and
\* the reference has been replaced by the id of the run
C26_Witness ==
    /\ rvOutput.returned
    /\ rvInput.text = <<Lit("status: "), Ref(<<"runId">>)>>
    /\ rvInput.context.runId = "run-1"
    /\ rvOutput.text = "status: run-1"

----------------------------------------------------------------------------
(* C27 *)

\* the final updateRun has persisted the end of the run
Terminated == ledger.endTime # NotEnded

\* the fields terminating a run sets, in the returned object and in the ledger
Outcome == <<run.status, run.endTime, run.error,
             ledger.status, ledger.endTime, ledger.error>>

\* C27: once the final updateRun has persisted the terminal status and the
\* endTime of a run, no step of execute() changes the status, endTime or
\* error of the run, in the returned object or in the ledger, and an endTime
\* that has been assigned is never assigned again
C27_TerminatedRunNeverMutated ==
    [][/\ Terminated => Outcome' = Outcome
       /\ run.endTime # NotEnded => run'.endTime = run.endTime]_vars

\* a run that completed and was persisted as completed, and is returned as
\* failed after an afterWorkflow hook threw
C27_Witness ==
    /\ pc = "returned"
    /\ \E p \in DOMAIN trace : trace[p].op = "updateFinal"
    /\ trace[Len(trace) - 1].op = "afterWorkflow"
    /\ trace[Len(trace)].op = "updateCatch"
    /\ \A k \in DOMAIN results : results[k].result.success
    /\ results # <<>>
    /\ run.status = "failed"
    /\ run.error = HookError
    /\ ledger.status = "failed"
    /\ ledger.error = HookError
    /\ ledger.endTime = run.endTime

----------------------------------------------------------------------------
(* C28 *)

\* the ways an attempt of a step can end: execute resolves with success true
\* or false or rejects, validate fails or throws, the timeout wins the race
AttemptOutcomes(step) ==
    ExecOutcomes
    \cup {InvalidOutcome(step),
          [kind |-> "throw", error |-> "validate failed", data |-> NoData],
          executeWithTimeout(TimedStep(step, 5000), AxiosTimeout,
                             HttpExecute(NoResponse))}

\* C28: executeStep never throws: however an attempt ends, it is followed by
\* another attempt or by the return of a StepResult whose success tells
\* whether the attempt resolved with success=true; the catch block of
\* execute() is never entered from a step's attempts, and every result
\* executeStep returns has a boolean success
C28_StepRunnerNeverThrows ==
    /\ pc = "attempt" =>
          \A outcome \in AttemptOutcomes(CurrentStep) :
              LET after == AfterAttempt(CurrentStep, retryCount, lastError, outcome)
              IN /\ ~after.threw
                 /\ ~after.again => after.result.success = (outcome.kind = "ok")
    /\ pc = "catchUpdate" => trace[Len(trace)].op \notin AttemptOps
    /\ \A k \in DOMAIN results : results[k].result.success \in BOOLEAN

\* a step with retries whose execute rejected at every attempt has returned
\* a failed StepResult, and the run goes on
C28_Witness ==
    /\ pc = "checkpoint"
    /\ workflow[1].retries >= 1
    /\ Calls(1, "execute") = workflow[1].retries + 1
    /\ results = <<[step |-> 1,
                    result |-> ExhaustedResult(ExecErrorThrown,
                                               workflow[1].retries + 1)]>>
    /\ run.status = "running"

----------------------------------------------------------------------------
(* C29 *)

\* attempt a of step i sends the a-th request to the endpoint, which answers
\* it after the step's timeout
TimedOut(i, a) ==
    /\ workflow[i].type = "http"
    /\ HasTimeout(workflow[i])
    /\ a <= Len(endpoint.script)
    /\ endpoint.script[a].latency > workflow[i].timeout

\* C29: an attempt of a step with a timeout whose execute call settles after
\* the timeout fails with "Step execution timed out after <timeout>ms" and is
\* retried as a thrown failure is: while attempts remain it is followed by
\* the backoff sleep and by the next attempt, and when it is attempt
\* retries+1 the step returns success=false with that error and retries =
\* the step's retries; execute is never called more than retries+1 times
C29_TimeoutIsRetried ==
    \A p \in DOMAIN trace :
        LET i == trace[p].step
            a == trace[p].arg
        IN (trace[p].op = "execute" /\ TimedOut(i, a))
           => /\ a <= workflow[i].retries + 1
              /\ IF a <= workflow[i].retries
                 THEN /\ Len(trace) = p => pc = "backoff"
                      /\ Len(trace) > p => trace[p + 1] = Event("sleep", i, BackoffDelay(a))
                      /\ Len(trace) > p + 1 => trace[p + 2] = Event("validate", i, a + 1)
                      /\ Len(trace) > p + 2 => trace[p + 3] = Event("execute", i, a + 1)
                 ELSE \E k \in DOMAIN results :
                        /\ results[k].step = i
                        /\ results[k].result =
                             [success |-> FALSE,
                              error |-> "Step execution timed out after 5000ms",
                              data |-> NoData,
                              retries |-> workflow[i].retries]

\* the endpoint never answers in time: the http step with a timeout of 5 s
\* and 2 retries was attempted three times, slept 1 s and 2 s in between,
\* and failed with the timeout error
C29_Witness ==
    /\ pc = "returned"
    /\ HasTimeout(workflow[3])
    /\ \A a \in 1..3 : TimedOut(3, a)
    /\ Calls(3, "execute") = 3
    /\ Fired("sleep", 3) = {1000, 2000}
    /\ run.steps["http-step"].error = "Step execution timed out after 5000ms"
    /\ run.steps["http-step"].retries = 2
    /\ ~run.steps["http-step"].success

----------------------------------------------------------------------------
(* C30 *)

\* C30: steps execute strictly one at a time: whenever an attempt is about to
\* call an executor's execute, no earlier execute call of the run is still in
\* flight
C30_OneExecuteInFlight ==
    pc = "attempt" => inFlight = {}

\* the first request of the http step lost its race against the 5 s timeout
\* and stays in flight until axios gives up after 30 s; 1 s of backoff later
\* the second attempt is about to send the second request
C30_Witness ==
    /\ pc = "attempt"
    /\ stepIdx = 3
    /\ retryCount = 1
    /\ inFlight = {ExecuteCall(3, 1, 10 + AxiosTimeout)}
    /\ clock = 10 + 5000 + 1000

----------------------------------------------------------------------------
(* C36 *)

\* C36: a run of a workflow of distinct step names that is returned as
\* completed holds no failed StepResult but of steps declared with
\* onError=continue
C36_CompletedRunHasNoUnhandledFailure ==
    (pc = "returned" /\ run.status = "completed" /\ UniqueNames)
        => \A n \in DOMAIN run.steps :
              ~run.steps[n].success
                 => \E i \in DOMAIN workflow : /\ workflow[i].name = n
                                                /\ workflow[i].onError = "continue"

\* a step declared with onError=retry failed and the run is returned completed
C36_Witness ==
    /\ pc = "returned"
    /\ run.status = "completed"
    /\ run.error = Undefined
    /\ UniqueNames
    /\ Len(workflow) = 2
    /\ workflow[1].onError = "retry"
    /\ DOMAIN run.steps = {workflow[1].name, workflow[2].name}
    /\ ~run.steps[workflow[1].name].success
    /\ run.steps[workflow[2].name].success
    /\ ledger.status = "completed"

----------------------------------------------------------------------------
(* C37 *)

\* the step whose failure stopped the run, with the message of its failure
StoppedByStep ==
    \E k \in DOMAIN results :
        /\ ~results[k].result.success
        /\ workflow[results[k].step].onError = "stop"
        /\ run.error = "Step '" \o workflow[results[k].step].name \o "' failed: "
                          \o results[k].result.error

\* C37 as stated: in every returned run the error is set if and only if the
\* status is failed, and the error of a failed run is not empty
C37_ErrorIffFailed ==
    pc = "returned"
        => /\ run.status \in {"completed", "failed"}
           /\ run.error # Undefined <=> run.status = "failed"
           /\ run.status = "failed" => run.error # ""

\* C37 amended: in every returned run the error is set if and only if the
\* status is failed; the error of a failed run is the message of the step
\* failure that stopped it, which is never empty, or the message of the
\* exception a hook or a ledger call threw, empty when the exception has none
C37_ErrorIffFailedMessageOfCause ==
    pc = "returned"
        => /\ run.status \in {"completed", "failed"}
           /\ run.error # Undefined <=> run.status = "failed"
           /\ run.status = "failed"
                 => \/ StoppedByStep /\ run.error # ""
                    \/ /\ Threw
                       /\ run.error \in {LedgerError}
                                        \cup { plugins[j].message : j \in DOMAIN plugins }

\* a hook threw an Error without a message: the run is returned failed with
\* the empty string as its error
C37_Witness ==
    /\ pc = "returned"
    /\ Threw
    /\ run.status = "failed"
    /\ run.error = ""
    /\ ledger.error = ""

----------------------------------------------------------------------------
(* C38 *)

\* C38: every StepResult of the step runner for a step with retries = N has
\* 0 <= retries <= N; a success at attempt n has retries = n - 1; and its
\* error is set if and only if its success is false
C38_StepResultWellFormed ==
    \A k \in DOMAIN results :
        LET i == results[k].step
            r == results[k].result
        IN /\ 0 <= r.retries
           /\ r.retries <= workflow[i].retries
           /\ r.success => r.retries = Calls(i, "execute") - 1
           /\ r.error # Undefined <=> ~r.success

\* every iteration of a fan-out over two items failed: the step runner
\* returns success=false without an error, and the run is stopped with
\* "failed: undefined"
C38_Witness ==
    /\ pc = "returned"
    /\ workflow[1].type = "foreach"
    /\ results = <<[step |-> 1,
                    result |-> [success |-> FALSE, error |-> Undefined,
                                data |-> NoData, retries |-> 0]]>>
    /\ run.status = "failed"
    /\ run.error = "Step 's1' failed: undefined"

----------------------------------------------------------------------------
(* C39 *)

\* C39: in every result of the fan-out, successCount + errorCount is
\* totalItems, every item index is either the index of an entry of results[]
\* or the index of one entry of errors[], never both, and no two entries of
\* errors[] have the same index
C39_EveryItemCountedOnce ==
    fePc = "done" =>
        LET data == feReturn.data
            listed == { data.errors[e].index : e \in DOMAIN data.errors }
        IN /\ data.successCount + data.errorCount = data.totalItems
           /\ data.totalItems = Len(feParams.items)
           /\ DOMAIN data.results \cup listed = 0..(Len(feParams.items) - 1)
           /\ DOMAIN data.results \cap listed = {}
           /\ \A e, f \in DOMAIN data.errors :
                 data.errors[e].index = data.errors[f].index => e = f

\* a parallel fan-out over three items in batches of two, whose first
\* iteration was rejected: a hole at index 0 of results[], one entry in
\* errors[]
C39_Witness ==
    /\ fePc = "done"
    /\ feParams.parallel
    /\ Len(feParams.items) = 3
    /\ Len(feBatches) = 2
    /\ DOMAIN feReturn.data.results = {1, 2}
    /\ Len(feReturn.data.errors) = 1
    /\ feReturn.data.errors[1].index = 0
    /\ feReturn.data.successCount = 2
    /\ feReturn.data.errorCount = 1

----------------------------------------------------------------------------
(* C33 *)

\* C33: a workflow in which two steps have the same name is reported invalid
\* by validateWorkflow, with a duplicate-step-name error; the loader hands no
\* such workflow to the engine, and the engine never records two steps under
\* one key of Run.steps
C33_DuplicateNamesRejected ==
    /\ ~UniqueNames
          => /\ ~validateWorkflow(workflow).valid
             /\ \E e \in validateWorkflow(workflow).errors :
                   e = "Step 1: duplicate step name '" \o workflow[2].name \o "'"
    /\ pc \notin {"load", "invalid"} => UniqueNames
    /\ \A k, l \in DOMAIN results :
          workflow[results[k].step].name = workflow[results[l].step].name => k = l

\* a document of two steps named s1 passed the loader; both steps ran and
\* the returned run holds one entry, the result of the second
C33_Witness ==
    /\ pc = "returned"
    /\ workflow[1].name = "s1"
    /\ workflow[2].name = "s1"
    /\ Len(results) = 2
    /\ DOMAIN run.steps = {"s1"}
    /\ run.steps["s1"] = results[2].result
    /\ results[1].result # results[2].result

\* a saveRun or updateRun call of the run failed: the catch block follows it
\* at once
LedgerCallFailed ==
    \E p \in DOMAIN trace :
        /\ trace[p].op \in {"saveRun", "updateSteps", "updateFinal"}
        /\ p < Len(trace)
        /\ trace[p + 1].op = "updateCatch"

\* what the claim compares of a run or of its ledger row: the status, the
\* error, the step names and their success flags
Persisted(r) ==
    [status |-> r.status, error |-> r.error,
     steps |-> [n \in DOMAIN r.steps |-> r.steps[n].success]]

\* C35: whenever execute() returns and no ledger call failed, the ledger's
\* row of the run has the status, the error, the step names and the success
\* flags of the returned Run, also when a beforeStep or afterStep hook
\* exception aborted the run
C35_LedgerAgreesWithReturnedRun ==
    pc = "returned" /\ ~LedgerCallFailed => Persisted(ledger) = Persisted(run)

\* an afterStep hook threw on the first step: the returned Run holds the
\* step's result and the ledger row holds no step
C35_Witness ==
    /\ pc = "returned"
    /\ ~LedgerCallFailed
    /\ \E p \in DOMAIN trace : HookThrewAt(p) /\ trace[p].op = "afterStep"
    /\ ledger.status = "failed"
    /\ ledger.error = HookError
    /\ DOMAIN run.steps = {workflow[1].name}
    /\ DOMAIN ledger.steps = {}

\* C34: the variables of the Run are the workflow's variables overridden by
\* the caller's (for every name the caller's value when the caller gave the
\* name, otherwise the workflow's, and no other name), from the creation of
\* the run to its return; no step of execute() changes the caller's object
\* or the workflow's
C34_VariablesAreTheEffectiveSnapshot ==
    /\ [](pc # "start" =>
            /\ DOMAIN run.variables
                 = (DOMAIN args.workflowVariables.entries)
                   \cup (DOMAIN args.variables.entries)
            /\ \A n \in DOMAIN run.variables :
                 run.variables[n] = IF n \in DOMAIN args.variables.entries
                                    THEN args.variables.entries[n]
                                    ELSE args.workflowVariables.entries[n])
    /\ [][args' = args]_vars

\* a returned run of a call where the caller overrides "env", the workflow
\* alone gives "user", and the caller's value wins
C34_Witness ==
    /\ pc = "returned"
    /\ args.workflowVariables = Object([n \in {"env", "user"} |-> JsStr("workflow")])
    /\ args.variables = Object([n \in {"env"} |-> JsStr("caller")])
    /\ run.variables = [n \in {"env", "user"} |->
                           IF n = "env" THEN JsStr("caller") ELSE JsStr("workflow")]

\* the call of execute() has ended
Ended == pc \in {"returned", "rejected"}

\* the executor of the step settles every call of execute
SettlingExecutor(step) ==
    /\ step.type # "hang"
    /\ ~(step.type = "foreach" /\ ForEachBlocks(step.params))

\* C40: when every step has a timeout or an executor whose execute call
\* settles (hooks and ledger calls settle under the fairness of the
\* specification), execute() eventually ends; a step with a timeout and
\* retries = N is attempted at most N + 1 times and is eventually done with,
\* even when its executor's execute call never settles
C40_ExecuteTerminates ==
    /\ (\A i \in DOMAIN workflow :
            HasTimeout(workflow[i]) \/ SettlingExecutor(workflow[i]))
          => <>Ended
    /\ [](\A i \in DOMAIN workflow :
            HasTimeout(workflow[i]) => Calls(i, "execute") <= workflow[i].retries + 1)
    /\ (pc = "attempt" /\ HasTimeout(CurrentStep)) ~> (pc # "attempt")

\* the same for executors that return their promise: a step with a timeout
\* whose executor blocks inside the call is left aside
C40_ExecuteTerminatesWhenCallsReturn ==
    /\ (\A i \in DOMAIN workflow :
            \/ SettlingExecutor(workflow[i])
            \/ HasTimeout(workflow[i]) /\ workflow[i].type = "hang")
          => <>Ended
    /\ [](pc = "attempt" /\ HasTimeout(CurrentStep) /\ CurrentStep.type = "hang"
            => <>(pc # "attempt"))

\* execute() stands in the first attempt of a fan-out step that has a
\* timeout and a negative maxConcurrency, and no outcome lets it go on
C40_Witness ==
    /\ pc = "attempt"
    /\ retryCount = 0
    /\ HasTimeout(CurrentStep)
    /\ CurrentStep.type = "foreach"
    /\ ForEachBlocks(CurrentStep.params)
    /\ Settling(Outcomes(CurrentStep, Context, endpoint)) = {}

\* the sub-steps for which a settled iteration holds a result
SubResults ==
    { <<i, k>> \in (DOMAIN feSettled) \X (DOMAIN feParams.steps) :
        feParams.steps[k].name \in DOMAIN feSettled[i].steps }

\* C32: a sub-step of a fan-out gets the result the Step Runner gives the
\* same step: a type without a registered executor gives the Step Runner's
\* unknown-type failure, a type with one is run by it, and a step whose
\* params its executor's validate rejects fails on each of its retries + 1
\* attempts and reports retries = N
C32_SubStepsRunAsTopLevelSteps ==
    \A p \in SubResults :
        LET step == feParams.steps[p[2]]
            res == feSettled[p[1]].steps[step.name]
        IN /\ step.type \notin DOMAIN stepExecutors => res = UnknownTypeResult(step)
           /\ step.type \in DOMAIN stepExecutors =>
                 /\ res.error # "Unsupported nested step type: " \o step.type
                                    \o ". Use a script step for complex operations."
                 /\ stepExecutors[step.type].hasValidate
                    /\ ~validate(step.type, step.params)
                       => res = ExhaustedResult(ValidationError(step), step.retries + 1)

\* the fan-out has returned; its sub-step is an http step with invalid
\* params and retries = MaxRetries, and the result of the first iteration is
\* the failure of an unsupported type after a single attempt
C32_Witness ==
    /\ fePc = "done"
    /\ feParams.steps[1].type = "http"
    /\ "http" \in DOMAIN stepExecutors
    /\ feParams.steps[1].params = InvalidParams
    /\ feParams.steps[1].retries = MaxRetries
    /\ <<0, 1>> \in SubResults
    /\ feSettled[0].steps["s1"].retries = 0
    /\ feSettled[0].steps["s1"].error
         = "Unsupported nested step type: http. Use a script step for complex operations."

\* the runs execute() can return for a workflow when no other call runs on
\* the engine: from step i on, with the run and the global names so far,
\* for every outcome of the executor calls
RECURSIVE AloneFrom(_, _, _, _)
AloneFrom(i, steps, r, defined) ==
    LET next == SkipFrom(i, steps, r.steps, defined)
    IN IF next.stepIdx > Len(steps)
       THEN { [r EXCEPT !.status = FinalStatus(@)] }
       ELSE UNION {
              LET step == steps[next.stepIdx]
                  res == AfterAttempt(step, 0, Undefined, outcome).result
                  recorded == [r EXCEPT !.steps = PutStep(@, step.name, res)]
              IN IF StopsRun(step, res)
                 THEN { [recorded EXCEPT !.status = "failed",
                                         !.error = StepFailedError(step, res)] }
                 ELSE AloneFrom(next.stepIdx + 1, steps, recorded, next.defined) :
              outcome \in ExecOutcomes }

AloneRuns(steps) == AloneFrom(1, steps, CreateRun(NoArgs).run, {})

\* the row of id c holds nothing but data of the run of id c
RowIsOfItsRun(c) ==
    LET row == rows[c]
        r == executeCalls[c].run
    IN /\ DOMAIN row.steps \subseteq DOMAIN r.steps
       /\ \A n \in DOMAIN row.steps : row.steps[n] = r.steps[n]
       /\ \A n \in DOMAIN row.steps :
             \E i \in DOMAIN executeCalls[c].workflow : executeCalls[c].workflow[i].name = n
       /\ row.saved => row.status \in {"running", r.status}
       /\ row.error \in {Undefined, r.error}

\* C31: when two calls of execute() interleave, the Run each returns is one
\* its workflow gives with some outcomes of its own executor calls when it
\* runs alone (steps, variables, status and error), and every ledger row
\* holds only data of the run whose id it carries
C31_RunsAreIndependent ==
    \A c \in CallIds :
        /\ executeCalls[c].pc = "returned" =>
              executeCalls[c].run \in AloneRuns(executeCalls[c].workflow)
        /\ RowIsOfItsRun(c)

\* call 2 has returned a run in which its step ran because a condition of
\* call 1 had defined the name its own condition reads; alone, the step is
\* skipped
C31_Witness ==
    /\ executeCalls[1].workflow[1].condition = CondAssignment
    /\ Len(executeCalls[2].workflow) = 1
    /\ executeCalls[2].workflow[1].condition = CondReadsGlobal
    /\ executeCalls[2].pc = "returned"
    /\ DOMAIN executeCalls[2].run.steps = {"run2-s1"}
    /\ \A r \in AloneRuns(executeCalls[2].workflow) : DOMAIN r.steps = {}
    /\ RowIsOfItsRun(2)

====
